---- MODULE Spec2Model ----
(***************************************************************************)
(* Model of the libtock-rs (CHERI) userland syscall runtime: the safe      *)
(* Syscalls facade (platform/src/syscalls_impl.rs), the Subscribe guard    *)
(* (platform/src/subscribe.rs), the Register conversions                   *)
(* (platform/src/register.rs) and the RISC-V raw entry points              *)
(* (runtime/src/syscalls_impl_riscv.rs), run against a TRD104 kernel.      *)
(***************************************************************************)
EXTENDS Integers, Sequences, FiniteSets, TLC

(***************************************************************************)
(* Bounds of the model.                                                    *)
(***************************************************************************)
\* Largest number of live stack entries (borrowed objects and guards).
MaxDepth == 2
\* Largest number of upcalls the kernel keeps queued for the process.
MaxPending == 2
\* Width given to u32 in the model; usize values are wider.
U32Bits == 14
\* Largest number of yield_wait calls counted inside one upcall_result_yield.
MaxYields == 2

(***************************************************************************)
(* Wire constants (TRD104).                                                *)
(***************************************************************************)
FAILURE == 0
FAILURE_U32 == 1
FAILURE_2_U32 == 2
FAILURE_U64 == 3
SUCCESS == 128
SUCCESS_U32 == 129
SUCCESS_2_U32 == 130
SUCCESS_U64 == 131
SUCCESS_3_U32 == 132
SUCCESS_U32_U64 == 133

YIELD == 0
SUBSCRIBE == 1
COMMAND == 2
ALLOW_RW == 3
ALLOW_RO == 4
MEMOP == 5
EXIT == 6

TERMINATE == 0
RESTART == 1

\* Memop operation types: move the break, ask for the start of memory.
MEMOP_SBRK == 1
MEMOP_MEM_START == 2

NO_WAIT == 0
WAIT == 1

NoUpcall == 0
Upcall == 1

FAIL == 1
NOMEM == 9
NOSUPPORT == 10
NODEVICE == 11
INVAL == 6
\* The numeric values ErrorCode defines (1 ..= 13 and BadRVal = 1024).
ErrorCodes == (1..13) \cup {1024}

\* Address of the monomorphized trampoline kernel_upcall::<S, IDS, U>.
KernelUpcallAddr == 64
\* Address of the local `flag` of yield_no_wait.
FlagAddr == 48

(***************************************************************************)
(* The small world the process runs in.                                    *)
(***************************************************************************)
\* (driver, subscribe number) pairs a Subscribe guard is instantiated for.
SubscribeIds == {<<1, 0>>, <<1, 1>>, <<2, 0>>}
\* (driver, buffer number) pairs an AllowRw / AllowRo guard is instantiated for.
AllowIds == {<<1, 0>>, <<2, 0>>}
\* Drivers the kernel has installed; driver 2 is absent.
InstalledDrivers == {1}
\* Addresses of the upcall objects (Cell<bool>) the process may own.
UpcallObjs == {8, 12}
\* Addresses of the upcall objects (StandardResult) the process may own.
ResultObjs == {16}
\* Values a driver passes as argument 0 of an upcall.
UpcallArgs == {0, NODEVICE}
\* Buffers (address, length) the process may own.
Buffers == {[addr |-> 20, len |-> 4]}
\* (driver, command number) pairs the process issues commands for.
CommandIds == {<<1, 0>>, <<2, 0>>}
\* Values the process passes as argument 0 of a command.
CommandArgs == {0, 1}
\* Operation types and arguments the process passes to memop.
MemopOps == {MEMOP_SBRK, MEMOP_MEM_START}
MemopArgs == {0, 32}
\* The memory of the process: its first address, its break at startup and the
\* highest break the kernel grants.
MemoryStart == 80
HeapStart == 96
HeapLimit == 128
\* Completion codes the process exits with.
ExitCodes == {0, 1}
\* The LED driver: its driver number, its command numbers and the number of
\* slots of the simulated one.
LEDS_DRIVER_NUM == 2
LEDS_EXISTS == 0
LED_ON == 1
LED_OFF == 2
LED_TOGGLE == 3
NUM_LEDS == 10
\* Slot indices the process asks for; the last two are out of range.
LedIndices == 0..11
\* The low-level-debug driver and its alert command.
LOW_LEVEL_DEBUG == 8
PRINT_ALERT_CODE == 1
HeapOOM == 3
\* Values the codecs are exercised with: u32, u64 (two u32 halves), usize and
\* ErrorCode; the largest of each, and u64 values with a zero half.
U32Values == {0, 1, 2 ^ U32Bits - 1}
U64Values ==
    {0, 1, 2 ^ U32Bits - 1, 2 ^ U32Bits, 3 * (2 ^ U32Bits) + 5,
     (2 ^ U32Bits - 1) * (2 ^ U32Bits), (2 ^ U32Bits) * (2 ^ U32Bits) - 1}
UsizeValues ==
    {0, 1, 2 ^ U32Bits - 1, 2 ^ U32Bits, 2 ^ U32Bits + 1, (2 ^ U32Bits) * (2 ^ U32Bits) - 1}
ErrorCodeValues == {FAIL, NOMEM, 1024}
\* Tags no return variant is defined for.
UnknownVariants == {4, 134}
\* Tags a kernel may use in r0 for a failed Subscribe / Allow.
FailTags == {FAILURE, FAILURE_2_U32}

ZeroBuffer == [addr |-> 0, len |-> 0]
NullUpcall == [fn |-> 0, data |-> 0]

(***************************************************************************)
(* Register codec (platform/src/register.rs).  A Register is an address    *)
(* plus the capability tag of the cptr it wraps.                           *)
(***************************************************************************)
\* From<usize> for Register that keeps the low 32 bits.
Register_from_usize_truncating(value) == [addr |-> value % (2 ^ U32Bits), tag |-> FALSE]

Register_from_usize(value) == [addr |-> value, tag |-> FALSE]

Register_from_u32(value) == Register_from_usize(value)

Register_from_ptr(value) == [addr |-> value, tag |-> TRUE]

Register_from_function(fnptr) == [addr |-> fnptr, tag |-> TRUE]

\* From<ErrorCode> for Register
Register_from_ErrorCode(value) == Register_from_usize(value)

usize_from_Register(register) == register.addr

as_u32(register) == usize_from_Register(register) % (2 ^ U32Bits)

\* TryFrom<Register> for u32 that truncates.
u32_try_from_truncating(register) ==
    [ok |-> TRUE, val |-> usize_from_Register(register) % (2 ^ U32Bits)]

\* TryFrom<Register> for u32: the value, or TryFromIntError.
u32_try_from(register) ==
    LET as_usize == usize_from_Register(register) IN
    IF as_usize < 2 ^ U32Bits
    THEN [ok |-> TRUE, val |-> as_usize]
    ELSE [ok |-> FALSE, val |-> 0]

(***************************************************************************)
(* Result<(), ErrorCode>.                                                  *)
(***************************************************************************)
Ok == [ok |-> TRUE, val |-> 0]

Err(e) == [ok |-> FALSE, val |-> e]

(***************************************************************************)
(* State.                                                                  *)
(*   stack   the live borrowed objects and guards of the process, oldest   *)
(*           first: an entry outlives every entry above it                 *)
(*   kernel  the kernel's view of the process: the upcall registered in    *)
(*           each subscribe slot, the buffer shared in each allow slot,    *)
(*           the queue of upcalls waiting for a yield, and the memory      *)
(*           break of the process                                          *)
(*   cells   the value of each Cell<bool> upcall object (FALSE while the    *)
(*           object does not exist)                                        *)
(*   pc      where the process is: "run" in its own code, "trap" inside a  *)
(*           yield system call, "upcall" inside kernel_upcall, "result"    *)
(*           inside the loop of upcall_result_yield, "exited" once the     *)
(*           kernel has taken an Exit system call                          *)
(*   yld     the yield call in progress                                    *)
(*   last    the facade call the latest step completed (NoCall when the    *)
(*           step completed none): the raw system calls it issued, the     *)
(*           registers the kernel answered, what it returned and how many  *)
(*           times it ran the Config hook                                  *)
(*   uaf     TRUE once kernel_upcall dereferenced a freed upcall object    *)
(*   results the value of each StandardResult upcall object,               *)
(*           Cell<Option<(usize,)>>                                        *)
(*   acc     the upcall_result_yield call in progress                      *)
(*   probe   the input and the output of the latest conversion done with   *)
(*           the Register and CommandReturn codecs                         *)
(*   ddc     the default data capability of the process                    *)
(*   ocell   a Cell<Option<tuple>> upcall object: the tuple type it was    *)
(*           built for and its value                                       *)
(***************************************************************************)
VARIABLES stack, kernel, cells, pc, yld, last, uaf, results, acc, probe, ddc, ocell

vars == <<stack, kernel, cells, pc, yld, last, uaf, results, acc, probe, ddc, ocell>>

(***************************************************************************)
(* Stack entries.                                                          *)
(***************************************************************************)
UpcallEntry(a) == [kind |-> "upcall", driver |-> 0, num |-> 0, addr |-> a, len |-> 0]

ResultEntry(a) == [kind |-> "result", driver |-> 0, num |-> 0, addr |-> a, len |-> 0]

BufferEntry(b) == [kind |-> "buffer", driver |-> 0, num |-> 0, addr |-> b.addr, len |-> b.len]

\* Addresses of the live objects of one kind.
Live(kind) == {stack[i].addr : i \in {j \in DOMAIN stack : stack[j].kind = kind}}

\* Indices of the live guards of one kind for one (driver, num).
GuardsFor(kind, id) ==
    {i \in DOMAIN stack : stack[i].kind = kind /\ <<stack[i].driver, stack[i].num>> = id}

(***************************************************************************)
(* CommandReturn: the constructors of unittest/src/command_return.rs and   *)
(* the accessors of the platform crate.  A u64 travels as two registers,   *)
(* low half first.                                                         *)
(***************************************************************************)
\* CommandReturn::new
CommandReturn_new(return_variant, r1, r2, r3) ==
    [return_variant |-> return_variant, r1 |-> r1, r2 |-> r2, r3 |-> r3]

\* get_usizes_from_u64 that keeps the low half only.
get_usizes_from_u64_narrow(value) == <<value % (2 ^ U32Bits), 0>>

get_usizes_from_u64(value) == <<value % (2 ^ U32Bits), value \div (2 ^ U32Bits)>>

\* (lsb as u64) | ((msb as u64) << 32)
u64_from_usizes(lsb, msb) == (lsb % (2 ^ U32Bits)) + (msb % (2 ^ U32Bits)) * (2 ^ U32Bits)

failure(error_code) == CommandReturn_new(FAILURE, error_code, 0, 0)

failure_u32(error_code, value) == CommandReturn_new(FAILURE_U32, error_code, value, 0)

failure_2_u32(error_code, value0, value1) ==
    CommandReturn_new(FAILURE_2_U32, error_code, value0, value1)

failure_u64(error_code, value) ==
    LET halves == get_usizes_from_u64(value) IN
    CommandReturn_new(FAILURE_U64, error_code, halves[1], halves[2])

success == CommandReturn_new(SUCCESS, 0, 0, 0)

success_u32(value) == CommandReturn_new(SUCCESS_U32, value, 0, 0)

success_2_u32(value0, value1) == CommandReturn_new(SUCCESS_2_U32, value0, value1, 0)

success_u64(value) ==
    LET halves == get_usizes_from_u64(value) IN
    CommandReturn_new(SUCCESS_U64, halves[1], halves[2], 0)

success_3_u32(value0, value1, value2) ==
    CommandReturn_new(SUCCESS_3_U32, value0, value1, value2)

\* success_u32_u64 with the halves of the u64 in each other's place.
success_u32_u64_swapped(value0, value1) ==
    LET halves == get_usizes_from_u64(value1) IN
    CommandReturn_new(SUCCESS_U32_U64, value0, halves[2], halves[1])

success_u32_u64(value0, value1) ==
    LET halves == get_usizes_from_u64(value1) IN
    CommandReturn_new(SUCCESS_U32_U64, value0, halves[1], halves[2])

\* Option of a payload tuple.
NoPayload == [some |-> FALSE, val |-> <<>>]

Payload(t) == [some |-> TRUE, val |-> t]

u32_of(r) == r % (2 ^ U32Bits)

get_failure(cr) ==
    IF cr.return_variant = FAILURE THEN Payload(<<u32_of(cr.r1)>>) ELSE NoPayload

get_failure_u32(cr) ==
    IF cr.return_variant = FAILURE_U32
    THEN Payload(<<u32_of(cr.r1), u32_of(cr.r2)>>) ELSE NoPayload

get_failure_2_u32(cr) ==
    IF cr.return_variant = FAILURE_2_U32
    THEN Payload(<<u32_of(cr.r1), u32_of(cr.r2), u32_of(cr.r3)>>) ELSE NoPayload

get_failure_u64(cr) ==
    IF cr.return_variant = FAILURE_U64
    THEN Payload(<<u32_of(cr.r1), u64_from_usizes(cr.r2, cr.r3)>>) ELSE NoPayload

is_success(cr) == cr.return_variant = SUCCESS

\* get_success_u32 that accepts every success variant carrying a u32 first.
get_success_u32_lenient(cr) ==
    IF cr.return_variant \in {SUCCESS_U32, SUCCESS_2_U32, SUCCESS_3_U32, SUCCESS_U32_U64}
    THEN Payload(<<u32_of(cr.r1)>>) ELSE NoPayload

get_success_u32(cr) ==
    IF cr.return_variant = SUCCESS_U32 THEN Payload(<<u32_of(cr.r1)>>) ELSE NoPayload

get_success_2_u32(cr) ==
    IF cr.return_variant = SUCCESS_2_U32
    THEN Payload(<<u32_of(cr.r1), u32_of(cr.r2)>>) ELSE NoPayload

get_success_u64(cr) ==
    IF cr.return_variant = SUCCESS_U64
    THEN Payload(<<u64_from_usizes(cr.r1, cr.r2)>>) ELSE NoPayload

get_success_3_u32(cr) ==
    IF cr.return_variant = SUCCESS_3_U32
    THEN Payload(<<u32_of(cr.r1), u32_of(cr.r2), u32_of(cr.r3)>>) ELSE NoPayload

get_success_u32_u64(cr) ==
    IF cr.return_variant = SUCCESS_U32_U64
    THEN Payload(<<u32_of(cr.r1), u64_from_usizes(cr.r2, cr.r3)>>) ELSE NoPayload

(***************************************************************************)
(* The kernel side of the system calls (TRD104).  `ftag` is the tag the    *)
(* kernel puts in r0 when it refuses the call.                             *)
(***************************************************************************)
RECURSIVE Purge(_, _)
\* The queue without the upcalls scheduled for one subscribe slot.
Purge(q, id) ==
    IF q = <<>> THEN <<>>
    ELSE IF Head(q) = id THEN Purge(Tail(q), id)
    ELSE <<Head(q)>> \o Purge(Tail(q), id)

\* Subscribe: swap the upcall of the slot, answer the previous one.
KernelSubscribe(k, args, ftag) ==
    LET id == <<args[1].addr, args[2].addr>> IN
    IF id[1] \in InstalledDrivers /\ id \in SubscribeIds
    THEN [k |-> [k EXCEPT !.upcalls[id] = [fn |-> args[3].addr, data |-> args[4].addr],
                          !.pending = Purge(k.pending, id)],
          regs |-> <<Register_from_usize(SUCCESS_2_U32),
                     Register_from_function(k.upcalls[id].fn),
                     Register_from_ptr(k.upcalls[id].data),
                     Register_from_usize(0)>>]
    ELSE [k |-> k,
          regs |-> <<Register_from_usize(ftag), Register_from_usize(NODEVICE),
                     args[3], args[4]>>]

\* Allow (read-write or read-only): swap the buffer of the slot, answer the
\* previous one.
KernelAllow(k, field, args, ftag) ==
    LET id == <<args[1].addr, args[2].addr>> IN
    IF id[1] \in InstalledDrivers /\ id \in AllowIds
    THEN [k |-> [k EXCEPT ![field][id] = [addr |-> args[3].addr, len |-> args[4].addr]],
          regs |-> <<Register_from_usize(SUCCESS_2_U32),
                     Register_from_ptr(k[field][id].addr),
                     Register_from_usize(k[field][id].len),
                     Register_from_usize(0)>>]
    ELSE [k |-> k,
          regs |-> <<Register_from_usize(ftag), Register_from_usize(NODEVICE),
                     args[3], args[4]>>]

\* The LED driver of the simulated kernel, fake::Leds<NUM_LEDS>: its slots,
\* all false when it is created, and whether the kernel has it installed.
NoLeds == [installed |-> FALSE, leds |-> [led \in 0..(NUM_LEDS - 1) |-> FALSE]]

\* fake::Leds whose slot index wraps around the number of slots.
fake_Leds_command_wrapping(driver, command_num, argument0) ==
    LET led == argument0 % NUM_LEDS IN
    CASE command_num = LEDS_EXISTS ->
            [driver |-> driver, ret |-> success_u32(NUM_LEDS)]
      [] command_num = LED_ON ->
            [driver |-> [driver EXCEPT !.leds[led] = TRUE], ret |-> success]
      [] command_num = LED_OFF ->
            [driver |-> [driver EXCEPT !.leds[led] = FALSE], ret |-> success]
      [] command_num = LED_TOGGLE ->
            [driver |-> [driver EXCEPT !.leds[led] = ~@], ret |-> success]
      [] OTHER -> [driver |-> driver, ret |-> failure(NOSUPPORT)]

\* fake::Leds::command: the number of slots, or one slot switched when the
\* index is in range.
fake_Leds_command(driver, command_num, argument0) ==
    CASE command_num = LEDS_EXISTS ->
            [driver |-> driver, ret |-> success_u32(NUM_LEDS)]
      [] command_num \in {LED_ON, LED_OFF, LED_TOGGLE} /\ argument0 >= NUM_LEDS ->
            [driver |-> driver, ret |-> failure(INVAL)]
      [] command_num = LED_ON ->
            [driver |-> [driver EXCEPT !.leds[argument0] = TRUE], ret |-> success]
      [] command_num = LED_OFF ->
            [driver |-> [driver EXCEPT !.leds[argument0] = FALSE], ret |-> success]
      [] command_num = LED_TOGGLE ->
            [driver |-> [driver EXCEPT !.leds[argument0] = ~@], ret |-> success]
      [] OTHER -> [driver |-> driver, ret |-> failure(NOSUPPORT)]

\* Command: an installed driver answers Success, an absent driver Failure.
KernelCommand(k, args) ==
    IF args[1].addr \in InstalledDrivers
    THEN [k |-> k,
          regs |-> <<Register_from_usize(SUCCESS), Register_from_usize(0),
                     Register_from_usize(0), Register_from_usize(0)>>]
    ELSE [k |-> k,
          regs |-> <<Register_from_usize(FAILURE), Register_from_usize(NODEVICE),
                     Register_from_usize(0), Register_from_usize(0)>>]

\* The kernel's handler of a 4-argument system call of one class.
KernelSyscall4(k, class, args, ftag) ==
    CASE class = SUBSCRIBE -> KernelSubscribe(k, args, ftag)
      [] class = COMMAND -> KernelCommand(k, args)
      [] class = ALLOW_RW -> KernelAllow(k, "rw", args, ftag)
      [] class = ALLOW_RO -> KernelAllow(k, "ro", args, ftag)

\* Memop: sbrk moves the break and answers a capability to the previous
\* break, or fails with NOMEM beyond the limit.
KernelMemop(k, args) ==
    LET op == args[1].addr
        arg == args[2].addr
    IN CASE op = MEMOP_SBRK /\ k.brk + arg <= HeapLimit ->
                [k |-> [k EXCEPT !.brk = @ + arg],
                 regs |-> <<Register_from_usize(SUCCESS_U32), Register_from_ptr(k.brk)>>,
                 returns |-> TRUE]
         [] op = MEMOP_SBRK /\ k.brk + arg > HeapLimit ->
                [k |-> k,
                 regs |-> <<Register_from_usize(FAILURE), Register_from_usize(NOMEM)>>,
                 returns |-> TRUE]
         [] op = MEMOP_MEM_START ->
                [k |-> k,
                 regs |-> <<Register_from_usize(SUCCESS_U32), Register_from_ptr(MemoryStart)>>,
                 returns |-> TRUE]
         [] OTHER ->
                [k |-> k,
                 regs |-> <<Register_from_usize(FAILURE), Register_from_usize(NOSUPPORT)>>,
                 returns |-> TRUE]

\* Exit always succeeds: the kernel releases what the process registered and
\* never returns to it.
KernelExit(k, args) ==
    [k |-> [upcalls |-> [id \in SubscribeIds |-> NullUpcall],
            rw |-> [id \in AllowIds |-> ZeroBuffer],
            ro |-> [id \in AllowIds |-> ZeroBuffer],
            pending |-> <<>>,
            brk |-> HeapStart,
            leds |-> k.leds],
     regs |-> args,
     returns |-> FALSE]

\* The kernel's handler of a 2-argument system call of one class.
KernelSyscall2(k, class, args) ==
    CASE class = MEMOP -> KernelMemop(k, args)
      [] class = EXIT -> KernelExit(k, args)

\* Yield runs at most one pending upcall; yield-wait with nothing pending
\* puts the process to sleep until a driver schedules one.
KernelBlocks(y, k) == y.id = WAIT /\ y.delivered = 0 /\ k.pending = <<>>

KernelDelivers(y, k) == y.delivered = 0 /\ k.pending # <<>>

KernelYieldDone(y, k) == ~KernelBlocks(y, k) /\ ~KernelDelivers(y, k)

\* Before yield-no-wait returns, the kernel writes whether an upcall ran
\* through the pointer it was given in r1; yield-wait writes nothing.
KernelYieldFlag(y) ==
    IF y.id = NO_WAIT /\ y.flagptr = FlagAddr
    THEN [init |-> TRUE, val |-> IF y.delivered > 0 THEN Upcall ELSE NoUpcall]
    ELSE y.flag

(***************************************************************************)
(* Raw entry points (runtime/src/syscalls_impl_riscv.rs, xcheri build).    *)
(***************************************************************************)
\* a0 travels as a plain integer.
yield1(regs) ==
    [class |-> YIELD, args |-> <<Register_from_usize(usize_from_Register(regs[1]))>>]

\* a0 travels as a plain integer, a1 is loaded from memory as a capability.
yield2(regs) ==
    [class |-> YIELD, args |-> <<Register_from_usize(usize_from_Register(regs[1])), regs[2]>>]

\* a0 travels as a plain integer, a1 is loaded from and stored back to memory
\* as a capability around the ecall.
syscall2(k, class, regs) ==
    LET r0 == usize_from_Register(regs[1])
        out == KernelSyscall2(k, class, <<Register_from_usize(r0), regs[2]>>)
    IN [k |-> out.k,
        trap |-> [class |-> class, args |-> <<Register_from_usize(r0), regs[2]>>],
        regs |-> <<Register_from_usize(usize_from_Register(out.regs[1])), out.regs[2]>>,
        returns |-> out.returns]

\* syscall4 that passes every register as a plain integer, as the build
\* without capabilities does.
syscall4_untagged(k, class, regs, ftag) ==
    LET plain == [i \in 1..4 |-> Register_from_usize(usize_from_Register(regs[i]))]
        out == KernelSyscall4(k, class, plain, ftag)
    IN [k |-> out.k,
        trap |-> [class |-> class, args |-> plain],
        regs |-> [i \in 1..4 |-> Register_from_usize(usize_from_Register(out.regs[i]))]]

\* a0 and a1 travel as plain integers, a2 and a3 are loaded from and stored
\* back to memory as capabilities around the ecall.
syscall4(k, class, regs, ftag) ==
    LET r0 == usize_from_Register(regs[1])
        r1 == usize_from_Register(regs[2])
        out == KernelSyscall4(k, class,
                   <<Register_from_usize(r0), Register_from_usize(r1), regs[3], regs[4]>>,
                   ftag)
    IN [k |-> out.k,
        trap |-> [class |-> class,
                  args |-> <<Register_from_usize(r0), Register_from_usize(r1),
                             regs[3], regs[4]>>],
        regs |-> <<Register_from_usize(usize_from_Register(out.regs[1])),
                   Register_from_usize(usize_from_Register(out.regs[2])),
                   out.regs[3], out.regs[4]>>]

(***************************************************************************)
(* The Syscalls facade (platform/src/syscalls_impl.rs).  Each operator     *)
(* gives the kernel state after the call, the raw system calls issued, the *)
(* registers answered, the value returned and the number of hook calls.    *)
(***************************************************************************)
check_result(r0, r1) ==
    LET return_variant == as_u32(r0) IN
    IF return_variant = FAILURE THEN Err(as_u32(r1)) ELSE Ok

\* yield_no_wait that asks for yield-wait.
yield_no_wait_waits ==
    [op |-> "yield_no_wait",
     trap |-> yield2(<<Register_from_usize(WAIT), Register_from_ptr(FlagAddr)>>)]

yield_no_wait ==
    [op |-> "yield_no_wait",
     trap |-> yield2(<<Register_from_usize(NO_WAIT), Register_from_ptr(FlagAddr)>>)]

\* yield_wait that asks for yield-no-wait.
yield_wait_polls ==
    [op |-> "yield_wait", trap |-> yield1(<<Register_from_usize(NO_WAIT)>>)]

yield_wait ==
    [op |-> "yield_wait", trap |-> yield1(<<Register_from_usize(WAIT)>>)]

\* subscribe::inner
subscribe_inner(k, driver_num, subscribe_num, upcall_fcn, upcall_data, ftag) ==
    LET sc == syscall4(k, SUBSCRIBE,
                  <<Register_from_u32(driver_num), Register_from_u32(subscribe_num),
                    upcall_fcn, upcall_data>>, ftag)
        res == check_result(sc.regs[1], sc.regs[2])
        returned_upcall == usize_from_Register(sc.regs[2])
    IN [k |-> sc.k, traps |-> <<sc.trap>>, regs |-> sc.regs, ret |-> res,
        hook |-> IF res.ok /\ returned_upcall # 0 THEN 1 ELSE 0]

subscribe(k, DRIVER_NUM, SUBSCRIBE_NUM, upcall, ftag) ==
    LET upcall_fcn == Register_from_function(KernelUpcallAddr)
        upcall_data == Register_from_ptr(upcall)
    IN subscribe_inner(k, DRIVER_NUM, SUBSCRIBE_NUM, upcall_fcn, upcall_data, ftag)

\* unsubscribe with the driver and subscribe numbers in each other's place.
unsubscribe_swapped(k, driver_num, subscribe_num, ftag) ==
    LET sc == syscall4(k, SUBSCRIBE,
                  <<Register_from_u32(subscribe_num), Register_from_u32(driver_num),
                    Register_from_usize(0), Register_from_usize(0)>>, ftag)
    IN [k |-> sc.k, traps |-> <<sc.trap>>, regs |-> sc.regs, ret |-> Ok, hook |-> 0]

unsubscribe(k, driver_num, subscribe_num, ftag) ==
    LET sc == syscall4(k, SUBSCRIBE,
                  <<Register_from_u32(driver_num), Register_from_u32(subscribe_num),
                    Register_from_usize(0), Register_from_usize(0)>>, ftag)
    IN [k |-> sc.k, traps |-> <<sc.trap>>, regs |-> sc.regs, ret |-> Ok, hook |-> 0]

\* allow_rw::inner
allow_rw(k, DRIVER_NUM, BUFFER_NUM, buffer, ftag) ==
    LET sc == syscall4(k, ALLOW_RW,
                  <<Register_from_u32(DRIVER_NUM), Register_from_u32(BUFFER_NUM),
                    Register_from_ptr(buffer.addr), Register_from_usize(buffer.len)>>, ftag)
        res == check_result(sc.regs[1], sc.regs[2])
        returned_buffer == <<usize_from_Register(sc.regs[2]), usize_from_Register(sc.regs[3])>>
    IN [k |-> sc.k, traps |-> <<sc.trap>>, regs |-> sc.regs, ret |-> res,
        hook |-> IF res.ok /\ returned_buffer # <<0, 0>> THEN 1 ELSE 0]

\* unallow_rw that issues the Read-Only Allow class.
unallow_rw_wrong_class(k, driver_num, buffer_num, ftag) ==
    LET sc == syscall4(k, ALLOW_RO,
                  <<Register_from_u32(driver_num), Register_from_u32(buffer_num),
                    Register_from_usize(0), Register_from_usize(0)>>, ftag)
    IN [k |-> sc.k, traps |-> <<sc.trap>>, regs |-> sc.regs,
        ret |-> check_result(sc.regs[1], sc.regs[2]), hook |-> 0]

unallow_rw(k, driver_num, buffer_num, ftag) ==
    LET sc == syscall4(k, ALLOW_RW,
                  <<Register_from_u32(driver_num), Register_from_u32(buffer_num),
                    Register_from_usize(0), Register_from_usize(0)>>, ftag)
    IN [k |-> sc.k, traps |-> <<sc.trap>>, regs |-> sc.regs,
        ret |-> check_result(sc.regs[1], sc.regs[2]), hook |-> 0]

\* allow_ro::inner
allow_ro(k, DRIVER_NUM, BUFFER_NUM, buffer, ftag) ==
    LET sc == syscall4(k, ALLOW_RO,
                  <<Register_from_u32(DRIVER_NUM), Register_from_u32(BUFFER_NUM),
                    Register_from_ptr(buffer.addr), Register_from_usize(buffer.len)>>, ftag)
        res == check_result(sc.regs[1], sc.regs[2])
        returned_buffer == <<usize_from_Register(sc.regs[2]), usize_from_Register(sc.regs[3])>>
    IN [k |-> sc.k, traps |-> <<sc.trap>>, regs |-> sc.regs, ret |-> res,
        hook |-> IF res.ok /\ returned_buffer # <<0, 0>> THEN 1 ELSE 0]

unallow_ro(k, driver_num, buffer_num, ftag) ==
    LET sc == syscall4(k, ALLOW_RO,
                  <<Register_from_u32(driver_num), Register_from_u32(buffer_num),
                    Register_from_usize(0), Register_from_usize(0)>>, ftag)
    IN [k |-> sc.k, traps |-> <<sc.trap>>, regs |-> sc.regs,
        ret |-> check_result(sc.regs[1], sc.regs[2]), hook |-> 0]

\* Syscalls::command
command(k, driver_id, command_id, argument0, argument1) ==
    LET sc == syscall4(k, COMMAND,
                  <<Register_from_u32(driver_id), Register_from_u32(command_id),
                    Register_from_usize(argument0), Register_from_usize(argument1)>>, FAILURE)
    IN [k |-> sc.k, traps |-> <<sc.trap>>, regs |-> sc.regs,
        ret |-> CommandReturn_new(as_u32(sc.regs[1]), usize_from_Register(sc.regs[2]),
                                  usize_from_Register(sc.regs[3]),
                                  usize_from_Register(sc.regs[4])),
        hook |-> 0]

\* exit_terminate that asks for a restart.
exit_terminate_restarts(k, exit_code) ==
    LET sc == syscall2(k, EXIT, <<Register_from_u32(RESTART), Register_from_u32(exit_code)>>)
    IN [k |-> sc.k, traps |-> <<sc.trap>>, regs |-> <<>>, ret |-> Ok, hook |-> 0,
        returns |-> sc.returns]

exit_terminate(k, exit_code) ==
    LET sc == syscall2(k, EXIT, <<Register_from_u32(TERMINATE), Register_from_u32(exit_code)>>)
    IN [k |-> sc.k, traps |-> <<sc.trap>>, regs |-> <<>>, ret |-> Ok, hook |-> 0,
        returns |-> sc.returns]

\* Drop for ExitOnDrop: the process terminates.
ExitOnDrop_drop(k) == exit_terminate(k, 0)

\* kernel_upcall without the guard: it returns to the kernel however the
\* upcall body ended.
kernel_upcall_unguarded(k, completed) ==
    [k |-> k, traps |-> <<>>, returns |-> TRUE]

\* The trampoline kernel_upcall around the upcall body: the ExitOnDrop
\* guard is forgotten when the body completed and dropped when the body
\* unwound through the trampoline.
kernel_upcall(k, completed) ==
    IF completed
    THEN [k |-> k, traps |-> <<>>, returns |-> TRUE]
    ELSE LET exit == ExitOnDrop_drop(k) IN
         [k |-> exit.k, traps |-> exit.traps, returns |-> exit.returns]

exit_restart(k, exit_code) ==
    LET sc == syscall2(k, EXIT, <<Register_from_u32(RESTART), Register_from_u32(exit_code)>>)
    IN [k |-> sc.k, traps |-> <<sc.trap>>, regs |-> <<>>, ret |-> Ok, hook |-> 0,
        returns |-> sc.returns]

\* memop that hands back the address of r1 as a plain integer.
memop_untagged(k, op_type, arg1) ==
    LET sc == syscall2(k, MEMOP, <<Register_from_u32(op_type), Register_from_usize(arg1)>>)
        return_variant == as_u32(sc.regs[1])
    IN [k |-> sc.k, traps |-> <<sc.trap>>, regs |-> sc.regs,
        ret |-> IF return_variant = FAILURE
                THEN [ok |-> FALSE, val |-> as_u32(sc.regs[2]), cap |-> Register_from_usize(0)]
                ELSE [ok |-> TRUE, val |-> 0,
                      cap |-> Register_from_usize(usize_from_Register(sc.regs[2]))],
        hook |-> 0]

\* The result of memop: Err(code), or Ok(the capability in r1).
memop(k, op_type, arg1) ==
    LET sc == syscall2(k, MEMOP, <<Register_from_u32(op_type), Register_from_usize(arg1)>>)
        return_variant == as_u32(sc.regs[1])
    IN [k |-> sc.k, traps |-> <<sc.trap>>, regs |-> sc.regs,
        ret |-> IF return_variant = FAILURE
                THEN [ok |-> FALSE, val |-> as_u32(sc.regs[2]), cap |-> Register_from_usize(0)]
                ELSE [ok |-> TRUE, val |-> 0, cap |-> sc.regs[2]],
        hook |-> 0]

\* sbrk: on success the default data capability becomes the capability the
\* kernel answered, and the caller gets its address.
sbrk(k, d, offset) ==
    LET r == memop(k, MEMOP_SBRK, offset) IN
    [k |-> r.k, traps |-> r.traps, regs |-> r.regs,
     ret |-> IF r.ret.ok
             THEN [ok |-> TRUE, val |-> usize_from_Register(r.ret.cap)]
             ELSE Err(r.ret.val),
     hook |-> 0,
     ddc |-> IF r.ret.ok THEN r.ret.cap ELSE d]

\* _sbrk that hands the error code back as the pointer.
extern_C__sbrk_leaks_error(k, d, nbytes) ==
    LET r == sbrk(k, d, nbytes) IN
    [r EXCEPT !.ret = [ptr |-> r.ret.val]]

\* extern "C" fn _sbrk (runtime/src/tock_alloc.rs): the previous break, or
\* the null pointer when sbrk failed.
extern_C__sbrk(k, d, nbytes) ==
    LET r == sbrk(k, d, nbytes) IN
    [r EXCEPT !.ret = [ptr |-> IF r.ret.ok THEN r.ret.val ELSE 0]]

\* extern "C" fn sbrk, the alias for picolibc.
extern_C_sbrk(k, d, nbytes) == extern_C__sbrk(k, d, nbytes)

\* LowLevelDebug::print_alert_code: one command, its result dropped.
print_alert_code(k, code) ==
    command(k, LOW_LEVEL_DEBUG, PRINT_ALERT_CODE, code, 0)

\* oom_handler that exits without the alert.
oom_handler_silent(k) ==
    exit_terminate(k, NOMEM)

\* oom_handler (runtime/src/tock_alloc.rs)
oom_handler(k) ==
    LET alert == print_alert_code(k, HeapOOM)
        exit == exit_terminate(alert.k, NOMEM)
    IN [exit EXCEPT !.traps = alert.traps \o exit.traps]

(***************************************************************************)
(* Guards (platform/src/subscribe.rs and its AllowRw / AllowRo twins).     *)
(***************************************************************************)
\* Default::default() builds the guard of a slot, whatever guards exist.
Subscribe_default(DRIVER_NUM, SUBSCRIBE_NUM) ==
    [kind |-> "sub", driver |-> DRIVER_NUM, num |-> SUBSCRIBE_NUM, addr |-> 0, len |-> 0]

\* Drop for Subscribe that revokes nothing.
Subscribe_drop_forgets(k, guard, ftag) ==
    [k |-> k, traps |-> <<>>, regs |-> <<>>, ret |-> Ok, hook |-> 0]

\* Drop for Subscribe that revokes the neighbouring subscribe number.
Subscribe_drop_neighbour(k, guard, ftag) ==
    unsubscribe(k, guard.driver, 1 - guard.num, ftag)

\* Drop for Subscribe
Subscribe_drop(k, guard, ftag) == unsubscribe(k, guard.driver, guard.num, ftag)

AllowRw_default(DRIVER_NUM, BUFFER_NUM) ==
    [kind |-> "rw", driver |-> DRIVER_NUM, num |-> BUFFER_NUM, addr |-> 0, len |-> 0]

AllowRw_drop(k, guard, ftag) == unallow_rw(k, guard.driver, guard.num, ftag)

AllowRo_default(DRIVER_NUM, BUFFER_NUM) ==
    [kind |-> "ro", driver |-> DRIVER_NUM, num |-> BUFFER_NUM, addr |-> 0, len |-> 0]

AllowRo_drop(k, guard, ftag) == unallow_ro(k, guard.driver, guard.num, ftag)

\* Cell<bool> as Upcall: set the flag, whatever its value and the arguments.
Cell_bool_upcall(cell, arg0, arg1, arg2) == TRUE

(***************************************************************************)
(* StandardResult = Cell<Option<(usize,)>> and its UpcallResult view       *)
(* (platform/src/subscribe.rs).                                            *)
(***************************************************************************)
None == [some |-> FALSE, val |-> 0]

Some(x) == [some |-> TRUE, val |-> x]

\* Option<Result<(), ErrorCode>>
NoResult == [some |-> FALSE, res |-> Ok]

SomeResult(r) == [some |-> TRUE, res |-> r]

\* Cell<Option<(usize,)>> as Upcall: store the first argument.
StandardResult_upcall(cell, arg0, arg1, arg2) == Some(arg0)

\* (err as u32).try_into().unwrap_or(ErrorCode::Fail)
ErrorCode_or_Fail(err) ==
    LET code == err % (2 ^ U32Bits) IN
    IF code \in ErrorCodes THEN code ELSE FAIL

\* upcall_result that never sees the stored value.
upcall_result_blind(cell) == NoResult

\* A read that empties the cell, as Cell::take does.
Cell_take(cell) == [value |-> cell, cell |-> None]

\* self.get(): the value read, a copy, and the cell after the read.
Cell_get(cell) == [value |-> cell, cell |-> cell]

upcall_result(cell) ==
    LET stored == Cell_get(cell).value IN
    IF ~stored.some THEN NoResult
    ELSE LET x == stored.val IN
         SomeResult(IF x = 0 THEN Ok ELSE Err(ErrorCode_or_Fail(x)))

\* reset
StandardResult_reset(cell) == None

\* upcall_result_yield that returns without looking at the cell.
upcall_result_yield_unchecked(cell) ==
    [return |-> TRUE, result |-> Ok, calls |-> <<>>]

\* One turn of the loop of upcall_result_yield: return the stored result,
\* or call yield_wait and go round again.
upcall_result_yield(cell) ==
    LET result == upcall_result(cell) IN
    IF result.some
    THEN [return |-> TRUE, result |-> result.res, calls |-> <<>>]
    ELSE [return |-> FALSE, result |-> Ok, calls |-> <<yield_wait>>]

(***************************************************************************)
(* The Upcall implementations of Cell<Option<tuple>> and the UpcallResult  *)
(* view that implement_result! gives the StandardResult types              *)
(* (platform/src/subscribe.rs).  A tuple is a sequence.                    *)
(***************************************************************************)
CellTypes ==
    {"()", "(usize,)", "(usize, usize)", "(usize, usize, usize)",
     "(u32,)", "(u32, u32)", "(u32, u32, u32)"}

\* StandardResult, StandardResultArg1, StandardResultArg2
StandardResultTypes == {"(usize,)", "(usize, usize)", "(usize, usize, usize)"}

NoneTuple == [some |-> FALSE, val |-> <<>>]

\* Upcall impls that store the arguments in call order reversed.
Cell_Option_upcall_reversed(type, arg0, arg1, arg2) ==
    CASE type = "()" -> Some(<<>>)
      [] type = "(usize,)" -> Some(<<arg0>>)
      [] type = "(usize, usize)" -> Some(<<arg1, arg0>>)
      [] type = "(usize, usize, usize)" -> Some(<<arg2, arg1, arg0>>)
      [] type = "(u32,)" -> Some(<<arg0 % (2 ^ U32Bits)>>)
      [] type = "(u32, u32)" -> Some(<<arg1 % (2 ^ U32Bits), arg0 % (2 ^ U32Bits)>>)
      [] type = "(u32, u32, u32)" ->
            Some(<<arg2 % (2 ^ U32Bits), arg1 % (2 ^ U32Bits), arg0 % (2 ^ U32Bits)>>)

\* impl Upcall<AnyId> for Cell<Option<...>>: self.set(Some(...)), with
\* `as u32` in the u32 cells.
Cell_Option_upcall(type, arg0, arg1, arg2) ==
    CASE type = "()" -> Some(<<>>)
      [] type = "(usize,)" -> Some(<<arg0>>)
      [] type = "(usize, usize)" -> Some(<<arg0, arg1>>)
      [] type = "(usize, usize, usize)" -> Some(<<arg0, arg1, arg2>>)
      [] type = "(u32,)" -> Some(<<arg0 % (2 ^ U32Bits)>>)
      [] type = "(u32, u32)" -> Some(<<arg0 % (2 ^ U32Bits), arg1 % (2 ^ U32Bits)>>)
      [] type = "(u32, u32, u32)" ->
            Some(<<arg0 % (2 ^ U32Bits), arg1 % (2 ^ U32Bits), arg2 % (2 ^ U32Bits)>>)

\* Result<Arg, ErrorCode> of the UpcallResult view: `out` is the Arg as a
\* sequence, `val` the ErrorCode.
OkArg(out) == [ok |-> TRUE, val |-> 0, out |-> out]

ErrArg(e) == [ok |-> FALSE, val |-> e, out |-> <<>>]

NoResultArg == [some |-> FALSE, res |-> OkArg(<<>>)]

\* implement_result!: upcall_result of a StandardResult type.
implement_result_upcall_result(cell) ==
    IF ~cell.some THEN NoResultArg
    ELSE LET x == Head(cell.val) IN
         SomeResult(IF x = 0 THEN OkArg(Tail(cell.val))
                    ELSE ErrArg(ErrorCode_or_Fail(x)))

\* implement_result!: reset
implement_result_reset(cell) == NoneTuple

NoCell == [type |-> "()", value |-> NoneTuple]

(***************************************************************************)
(* Initial state: nothing allocated, nothing registered.                   *)
(***************************************************************************)
NoCall ==
    [op |-> "none", id |-> <<0, 0>>, traps |-> <<>>, regs |-> <<>>, ret |-> Ok, hook |-> 0,
     delivered |-> 0, completed |-> 0, cell |-> 0, yields |-> 0, args |-> <<>>]

NoAccessor == [active |-> FALSE, cell |-> 0, yields |-> 0, sinceCheck |-> 0]

NoProbe ==
    [op |-> "none", input |-> <<>>, cr |-> CommandReturn_new(0, 0, 0, 0),
     reg |-> Register_from_usize(0)]

NoYield ==
    [op |-> "none", id |-> 0, flagptr |-> 0, trap |-> [class |-> YIELD, args |-> <<>>],
     delivered |-> 0, completed |-> 0, cur |-> 0, flag |-> [init |-> FALSE, val |-> 0]]

Init ==
    /\ stack = <<>>
    /\ kernel = [upcalls |-> [id \in SubscribeIds |-> NullUpcall],
                 rw |-> [id \in AllowIds |-> ZeroBuffer],
                 ro |-> [id \in AllowIds |-> ZeroBuffer],
                 pending |-> <<>>,
                 brk |-> HeapStart,
                 leds |-> NoLeds]
    /\ cells = [a \in UpcallObjs |-> FALSE]
    /\ pc = "run"
    /\ yld = NoYield
    /\ last = NoCall
    /\ uaf = FALSE
    /\ results = [a \in ResultObjs |-> None]
    /\ acc = NoAccessor
    /\ probe = NoProbe
    /\ ocell = NoCell
    /\ ddc = Register_from_ptr(0)

\* What a facade call leaves in `last`.
Called(op, id, r) ==
    [op |-> op, id |-> id, traps |-> r.traps, regs |-> r.regs, ret |-> r.ret, hook |-> r.hook,
     delivered |-> 0, completed |-> 0, cell |-> 0, yields |-> 0, args |-> <<>>]

Top == stack[Len(stack)]

Pop == SubSeq(stack, 1, Len(stack) - 1)

(***************************************************************************)
(* Ownership steps of the process: objects are created and freed, scopes   *)
(* are entered and left, in stack order.                                   *)
(***************************************************************************)
\* The process creates an upcall object, Cell::new(false).
AllocUpcall ==
    \E a \in UpcallObjs \ Live("upcall") :
        /\ pc = "run" /\ Len(stack) < MaxDepth
        /\ stack' = Append(stack, UpcallEntry(a))
        /\ cells' = [cells EXCEPT ![a] = FALSE]
        /\ last' = NoCall
        /\ UNCHANGED <<results, acc, probe, ocell, ddc, kernel, pc, yld, uaf>>

\* The process creates a buffer.
AllocBuffer ==
    \E b \in Buffers :
        /\ pc = "run" /\ Len(stack) < MaxDepth
        /\ b.addr \notin Live("buffer")
        /\ stack' = Append(stack, BufferEntry(b))
        /\ last' = NoCall
        /\ UNCHANGED <<results, acc, probe, ocell, ddc, kernel, cells, pc, yld, uaf>>

\* The newest object goes out of scope and its memory is freed.
FreeObject ==
    /\ pc = "run" /\ stack # <<>>
    /\ Top.kind \in {"upcall", "buffer"}
    /\ stack' = Pop
    /\ cells' = IF Top.kind = "upcall" THEN [cells EXCEPT ![Top.addr] = FALSE] ELSE cells
    /\ last' = NoCall
    /\ UNCHANGED <<results, acc, probe, ocell, ddc, kernel, pc, yld, uaf>>

\* share::scope builds the guard of a slot and hands out its Handle.
ScopeEnterSubscribe ==
    \E id \in SubscribeIds :
        /\ pc = "run" /\ Len(stack) < MaxDepth
        /\ stack' = Append(stack, Subscribe_default(id[1], id[2]))
        /\ last' = NoCall
        /\ UNCHANGED <<results, acc, probe, ocell, ddc, kernel, cells, pc, yld, uaf>>

ScopeEnterAllowRw ==
    \E id \in AllowIds :
        /\ pc = "run" /\ Len(stack) < MaxDepth
        /\ stack' = Append(stack, AllowRw_default(id[1], id[2]))
        /\ last' = NoCall
        /\ UNCHANGED <<results, acc, probe, ocell, ddc, kernel, cells, pc, yld, uaf>>

ScopeEnterAllowRo ==
    \E id \in AllowIds :
        /\ pc = "run" /\ Len(stack) < MaxDepth
        /\ stack' = Append(stack, AllowRo_default(id[1], id[2]))
        /\ last' = NoCall
        /\ UNCHANGED <<results, acc, probe, ocell, ddc, kernel, cells, pc, yld, uaf>>

\* share::scope returns: the guard is dropped.
ScopeExitSubscribe ==
    \E ftag \in FailTags :
        /\ pc = "run" /\ stack # <<>> /\ Top.kind = "sub"
        /\ LET r == Subscribe_drop(kernel, Top, ftag) IN
            /\ kernel' = r.k
            /\ last' = Called("drop_subscribe", <<Top.driver, Top.num>>, r)
        /\ stack' = Pop
        /\ UNCHANGED <<results, acc, probe, ocell, ddc, cells, pc, yld, uaf>>

ScopeExitAllowRw ==
    \E ftag \in FailTags :
        /\ pc = "run" /\ stack # <<>> /\ Top.kind = "rw"
        /\ LET r == AllowRw_drop(kernel, Top, ftag) IN
            /\ kernel' = r.k
            /\ last' = Called("drop_allow_rw", <<Top.driver, Top.num>>, r)
        /\ stack' = Pop
        /\ UNCHANGED <<results, acc, probe, ocell, ddc, cells, pc, yld, uaf>>

ScopeExitAllowRo ==
    \E ftag \in FailTags :
        /\ pc = "run" /\ stack # <<>> /\ Top.kind = "ro"
        /\ LET r == AllowRo_drop(kernel, Top, ftag) IN
            /\ kernel' = r.k
            /\ last' = Called("drop_allow_ro", <<Top.driver, Top.num>>, r)
        /\ stack' = Pop
        /\ UNCHANGED <<results, acc, probe, ocell, ddc, cells, pc, yld, uaf>>

(***************************************************************************)
(* Facade calls of the process.  A Handle exists only while its guard is   *)
(* alive, and the 'share lifetime of the guard admits only objects that    *)
(* outlive it: the objects below it on the stack.                          *)
(***************************************************************************)
Subscribe ==
    \E g \in DOMAIN stack, o \in DOMAIN stack, ftag \in FailTags :
        /\ pc = "run"
        /\ stack[g].kind = "sub" /\ stack[o].kind \in {"upcall", "result"} /\ o < g
        /\ LET r == subscribe(kernel, stack[g].driver, stack[g].num, stack[o].addr, ftag) IN
            /\ kernel' = r.k
            /\ last' = Called("subscribe", <<stack[g].driver, stack[g].num>>, r)
        /\ UNCHANGED <<results, acc, probe, ocell, ddc, stack, cells, pc, yld, uaf>>

Unsubscribe ==
    \E id \in SubscribeIds, ftag \in FailTags :
        /\ pc = "run"
        /\ LET r == unsubscribe(kernel, id[1], id[2], ftag) IN
            /\ kernel' = r.k
            /\ last' = Called("unsubscribe", id, r)
        /\ UNCHANGED <<results, acc, probe, ocell, ddc, stack, cells, pc, yld, uaf>>

AllowRw ==
    \E g \in DOMAIN stack, o \in DOMAIN stack, ftag \in FailTags :
        /\ pc = "run"
        /\ stack[g].kind = "rw" /\ stack[o].kind = "buffer" /\ o < g
        /\ LET r == allow_rw(kernel, stack[g].driver, stack[g].num,
                             [addr |-> stack[o].addr, len |-> stack[o].len], ftag) IN
            /\ kernel' = r.k
            /\ last' = Called("allow_rw", <<stack[g].driver, stack[g].num>>, r)
        /\ UNCHANGED <<results, acc, probe, ocell, ddc, stack, cells, pc, yld, uaf>>

UnallowRw ==
    \E id \in AllowIds, ftag \in FailTags :
        /\ pc = "run"
        /\ LET r == unallow_rw(kernel, id[1], id[2], ftag) IN
            /\ kernel' = r.k
            /\ last' = Called("unallow_rw", id, r)
        /\ UNCHANGED <<results, acc, probe, ocell, ddc, stack, cells, pc, yld, uaf>>

AllowRo ==
    \E g \in DOMAIN stack, o \in DOMAIN stack, ftag \in FailTags :
        /\ pc = "run"
        /\ stack[g].kind = "ro" /\ stack[o].kind = "buffer" /\ o < g
        /\ LET r == allow_ro(kernel, stack[g].driver, stack[g].num,
                             [addr |-> stack[o].addr, len |-> stack[o].len], ftag) IN
            /\ kernel' = r.k
            /\ last' = Called("allow_ro", <<stack[g].driver, stack[g].num>>, r)
        /\ UNCHANGED <<results, acc, probe, ocell, ddc, stack, cells, pc, yld, uaf>>

UnallowRo ==
    \E id \in AllowIds, ftag \in FailTags :
        /\ pc = "run"
        /\ LET r == unallow_ro(kernel, id[1], id[2], ftag) IN
            /\ kernel' = r.k
            /\ last' = Called("unallow_ro", id, r)
        /\ UNCHANGED <<results, acc, probe, ocell, ddc, stack, cells, pc, yld, uaf>>

Command ==
    \E id \in CommandIds, argument0 \in CommandArgs :
        /\ pc = "run"
        /\ LET r == command(kernel, id[1], id[2], argument0, 0) IN
            /\ kernel' = r.k
            /\ last' = [Called("command", id, r) EXCEPT !.args = <<id[1], id[2], argument0, 0>>]
        /\ UNCHANGED <<results, acc, probe, ocell, ddc, stack, cells, pc, yld, uaf>>

Memop ==
    \E op_type \in MemopOps, arg1 \in MemopArgs :
        /\ pc = "run"
        /\ LET r == memop(kernel, op_type, arg1) IN
            /\ kernel' = r.k
            /\ last' = [Called("memop", <<0, 0>>, r) EXCEPT !.args = <<op_type, arg1>>]
        /\ UNCHANGED <<results, acc, probe, ocell, ddc, stack, cells, pc, yld, uaf>>

Sbrk ==
    \E offset \in MemopArgs :
        /\ pc = "run"
        /\ LET r == sbrk(kernel, ddc, offset) IN
            /\ kernel' = r.k
            /\ ddc' = r.ddc
            /\ last' = [Called("sbrk", <<0, 0>>, r) EXCEPT !.args = <<offset>>]
        /\ UNCHANGED <<results, acc, probe, ocell, stack, cells, pc, yld, uaf>>

\* The C library calls _sbrk or sbrk.
ExternCSbrk ==
    \E nbytes \in MemopArgs, alias \in BOOLEAN :
        /\ pc = "run"
        /\ LET r == IF alias THEN extern_C_sbrk(kernel, ddc, nbytes)
                    ELSE extern_C__sbrk(kernel, ddc, nbytes) IN
            /\ kernel' = r.k
            /\ ddc' = r.ddc
            /\ last' = [Called(IF alias THEN "extern_C_sbrk" ELSE "extern_C__sbrk",
                               <<0, 0>>, r) EXCEPT !.args = <<nbytes>>]
        /\ UNCHANGED <<results, acc, probe, ocell, stack, cells, pc, yld, uaf>>

\* The kernel takes the Exit call and the process runs no more.
ExitTerminate ==
    \E exit_code \in ExitCodes :
        /\ pc = "run"
        /\ LET r == exit_terminate(kernel, exit_code) IN
            /\ kernel' = r.k
            /\ last' = [Called("exit_terminate", <<0, 0>>, r) EXCEPT !.args = <<exit_code>>]
        /\ pc' = "exited"
        /\ UNCHANGED <<results, acc, probe, ocell, ddc, stack, cells, yld, uaf>>

ExitRestart ==
    \E exit_code \in ExitCodes :
        /\ pc = "run"
        /\ LET r == exit_restart(kernel, exit_code) IN
            /\ kernel' = r.k
            /\ last' = [Called("exit_restart", <<0, 0>>, r) EXCEPT !.args = <<exit_code>>]
        /\ pc' = "exited"
        /\ UNCHANGED <<results, acc, probe, ocell, ddc, stack, cells, yld, uaf>>

\* An allocation of the process fails and the allocator calls oom_handler.
OomHandler ==
    /\ pc = "run"
    /\ LET r == oom_handler(kernel) IN
        /\ kernel' = r.k
        /\ last' = Called("oom_handler", <<0, 0>>, r)
    /\ pc' = "exited"
    /\ UNCHANGED <<results, acc, probe, ocell, ddc, stack, cells, yld, uaf>>

(***************************************************************************)
(* Yield.  The trap is entered in one step; while the process is inside,   *)
(* the kernel may run one upcall through kernel_upcall; then the trap      *)
(* returns.                                                                *)
(***************************************************************************)
\* What a yield call leaves in `yld` when it traps.
Yielding(call) ==
    [op |-> call.op, id |-> usize_from_Register(call.trap.args[1]),
     flagptr |-> IF Len(call.trap.args) > 1 THEN usize_from_Register(call.trap.args[2]) ELSE 0,
     trap |-> call.trap, delivered |-> 0, completed |-> 0, cur |-> 0,
     flag |-> [init |-> FALSE, val |-> 0]]

YieldNoWait ==
    /\ pc = "run"
    /\ pc' = "trap"
    /\ yld' = Yielding(yield_no_wait)
    /\ last' = NoCall
    /\ UNCHANGED <<results, acc, probe, ocell, ddc, stack, kernel, cells, uaf>>

YieldWait ==
    /\ pc = "run"
    /\ pc' = "trap"
    /\ yld' = Yielding(yield_wait)
    /\ last' = NoCall
    /\ UNCHANGED <<results, acc, probe, ocell, ddc, stack, kernel, cells, uaf>>

\* The kernel takes the oldest pending upcall and calls the registered
\* function with the registered data.
DeliverUpcall ==
    /\ pc = "trap" /\ KernelDelivers(yld, kernel)
    /\ pc' = "upcall"
    /\ yld' = [yld EXCEPT !.delivered = @ + 1,
                          !.cur = kernel.upcalls[Head(kernel.pending)].data]
    /\ kernel' = [kernel EXCEPT !.pending = Tail(@)]
    /\ last' = NoCall
    /\ UNCHANGED <<results, acc, probe, ocell, ddc, stack, cells, uaf>>

\* kernel_upcall: run the upcall of the object `data` points to, then
\* return to the kernel.  The trampoline is monomorphized for the type of
\* that object, which the model reads from the object itself.
KernelUpcall ==
    \E arg0 \in UpcallArgs :
        /\ pc = "upcall"
        /\ CASE yld.cur \in Live("upcall") ->
                   /\ cells' = [cells EXCEPT ![yld.cur] = Cell_bool_upcall(@, arg0, 0, 0)]
                   /\ UNCHANGED <<results, uaf>>
             [] yld.cur \in Live("result") ->
                   /\ results' = [results EXCEPT
                                     ![yld.cur] = StandardResult_upcall(@, arg0, 0, 0)]
                   /\ UNCHANGED <<cells, uaf>>
             [] OTHER ->
                   /\ uaf' = TRUE
                   /\ UNCHANGED <<cells, results>>
        /\ yld' = [yld EXCEPT !.completed = @ + 1]
        /\ LET r == kernel_upcall(kernel, TRUE) IN
            /\ kernel' = r.k
            /\ pc' = IF r.returns THEN "trap" ELSE "exited"
            /\ last' = [NoCall EXCEPT !.traps = r.traps]
        /\ UNCHANGED <<acc, probe, ocell, ddc, stack>>

\* kernel_upcall when the upcall body, of a user's Upcall type, unwinds:
\* the body stored nothing, and the guard is dropped on the way out.
KernelUpcallUnwinds ==
    /\ pc = "upcall"
    /\ LET r == kernel_upcall(kernel, FALSE) IN
        /\ kernel' = r.k
        /\ pc' = IF r.returns THEN "trap" ELSE "exited"
        /\ last' = [NoCall EXCEPT !.op = "kernel_upcall", !.traps = r.traps]
    /\ UNCHANGED <<acc, probe, ocell, ddc, stack, cells, results, uaf, yld>>

\* yield_no_wait returns the flag, which is whatever the memory holds when
\* the kernel did not write it.
YieldNoWaitReturn ==
    /\ pc = "trap" /\ yld.op = "yield_no_wait" /\ KernelYieldDone(yld, kernel)
    /\ LET flag == KernelYieldFlag(yld) IN
        \E v \in IF flag.init THEN {flag.val} ELSE {NoUpcall, Upcall} :
            /\ last' = [op |-> yld.op, id |-> <<0, 0>>, traps |-> <<yld.trap>>,
                        regs |-> <<>>, ret |-> [ok |-> TRUE, val |-> v], hook |-> 0,
                        delivered |-> yld.delivered, completed |-> yld.completed,
                        cell |-> 0, yields |-> 0, args |-> <<>>]
    /\ yld' = NoYield
    /\ pc' = "run"
    /\ UNCHANGED <<results, acc, probe, ocell, ddc, stack, kernel, cells, uaf>>

YieldWaitReturn ==
    /\ pc = "trap" /\ yld.op = "yield_wait" /\ KernelYieldDone(yld, kernel)
    /\ yld' = NoYield
    /\ last' = [op |-> yld.op, id |-> <<0, 0>>, traps |-> <<yld.trap>>,
                regs |-> <<>>, ret |-> Ok, hook |-> 0,
                delivered |-> yld.delivered, completed |-> yld.completed,
                cell |-> 0, yields |-> 0, args |-> <<>>]
    /\ pc' = IF acc.active THEN "result" ELSE "run"
    /\ acc' = IF acc.active THEN [acc EXCEPT !.sinceCheck = @ + 1] ELSE acc
    /\ UNCHANGED <<results, probe, ocell, ddc, stack, kernel, cells, uaf>>

\* A driver schedules the upcall of a slot; a slot holding the null upcall
\* schedules nothing.
DriverEvent ==
    \E id \in SubscribeIds :
        /\ kernel.upcalls[id].fn # 0
        /\ Len(kernel.pending) < MaxPending
        /\ kernel' = [kernel EXCEPT !.pending = Append(@, id)]
        /\ last' = NoCall
        /\ UNCHANGED <<results, acc, probe, ocell, ddc, stack, cells, pc, yld, uaf>>

Next ==
    \/ AllocUpcall
    \/ AllocBuffer
    \/ FreeObject
    \/ ScopeEnterSubscribe
    \/ ScopeEnterAllowRw
    \/ ScopeEnterAllowRo
    \/ ScopeExitSubscribe
    \/ ScopeExitAllowRw
    \/ ScopeExitAllowRo
    \/ Subscribe
    \/ Unsubscribe
    \/ AllowRw
    \/ UnallowRw
    \/ AllowRo
    \/ UnallowRo
    \/ YieldNoWait
    \/ YieldWait
    \/ DeliverUpcall
    \/ KernelUpcall
    \/ YieldNoWaitReturn
    \/ YieldWaitReturn
    \/ DriverEvent

Spec == Init /\ [][Next]_vars

(***************************************************************************)
(* The blocking accessor UpcallResult::upcall_result_yield.  The process   *)
(* owns a Cell<bool> and a StandardResult and holds the guards of two      *)
(* subscribe slots; it registers the objects, resets the result and waits  *)
(* for it, while drivers schedule upcalls.                                 *)
(***************************************************************************)
\* One turn of the loop, on the StandardResult at address a, after `yields`
\* calls of yield_wait.
ResultIteration(a, yields) ==
    LET it == upcall_result_yield(results[a]) IN
    /\ IF it.return
       THEN /\ pc' = "run"
            /\ acc' = NoAccessor
            /\ yld' = yld
            /\ last' = [NoCall EXCEPT !.op = "upcall_result_yield", !.cell = a,
                                      !.ret = it.result, !.yields = yields]
       ELSE /\ pc' = "trap"
            /\ yld' = Yielding(it.calls[1])
            /\ acc' = [active |-> TRUE, cell |-> a,
                       yields |-> IF yields < MaxYields THEN yields + 1 ELSE MaxYields,
                       sinceCheck |-> 0]
            /\ last' = NoCall
    /\ results' = [results EXCEPT ![a] = Cell_get(@).cell]
    /\ UNCHANGED <<stack, kernel, cells, uaf, probe, ocell, ddc>>

\* The process calls upcall_result_yield on one of its StandardResults.
UpcallResultYield ==
    \E o \in DOMAIN stack :
        /\ pc = "run" /\ stack[o].kind = "result"
        /\ ResultIteration(stack[o].addr, 0)

\* yield_wait returned into the loop of upcall_result_yield.
UpcallResultYieldLoop ==
    /\ pc = "result"
    /\ ResultIteration(acc.cell, acc.yields)

\* The process resets a StandardResult that holds a value.
ResultReset ==
    \E o \in DOMAIN stack :
        /\ pc = "run" /\ stack[o].kind = "result"
        /\ results[stack[o].addr].some
        /\ results' = [results EXCEPT ![stack[o].addr] = StandardResult_reset(@)]
        /\ last' = NoCall
        /\ UNCHANGED <<stack, kernel, cells, pc, yld, uaf, acc, probe, ocell, ddc>>

ResultInit ==
    /\ \E a \in UpcallObjs, r \in ResultObjs :
          stack = <<UpcallEntry(a), ResultEntry(r),
                    Subscribe_default(1, 0), Subscribe_default(1, 1)>>
    /\ kernel = [upcalls |-> [id \in SubscribeIds |-> NullUpcall],
                 rw |-> [id \in AllowIds |-> ZeroBuffer],
                 ro |-> [id \in AllowIds |-> ZeroBuffer],
                 pending |-> <<>>,
                 brk |-> HeapStart,
                 leds |-> NoLeds]
    /\ cells = [a \in UpcallObjs |-> FALSE]
    /\ pc = "run"
    /\ yld = NoYield
    /\ last = NoCall
    /\ uaf = FALSE
    /\ results = [a \in ResultObjs |-> None]
    /\ acc = NoAccessor
    /\ probe = NoProbe
    /\ ocell = NoCell
    /\ ddc = Register_from_ptr(0)

ResultNext ==
    \/ Subscribe
    \/ DriverEvent
    \/ DeliverUpcall
    \/ KernelUpcall
    \/ YieldWaitReturn
    \/ UpcallResultYield
    \/ UpcallResultYieldLoop
    \/ ResultReset

SpecResult == ResultInit /\ [][ResultNext]_vars

\* The kernel delivers a pending upcall to a yielding process, an upcall
\* body runs to its end, the trap returns, and the loop goes on.
FairSpecResult ==
    /\ SpecResult
    /\ WF_vars(DeliverUpcall)
    /\ WF_vars(KernelUpcall)
    /\ WF_vars(YieldWaitReturn)
    /\ WF_vars(UpcallResultYieldLoop)

(***************************************************************************)
(* Properties.                                                             *)
(***************************************************************************)
\* The tag and the first payload register of the registers `last` holds.
Tag(c) == as_u32(c.regs[1])

Payload1(c) == usize_from_Register(c.regs[2])

Payload2(c) == usize_from_Register(c.regs[3])

\* C1: a subscribe call whose raw result carries the tag Failure-with-2-u32
\* and error code e in r1 returns Err(e), and subscribe returns Ok(()) only
\* when the tag is Success-with-2-u32.
C1_SubscribePropagatesFailure ==
    last.op = "subscribe" =>
        /\ Tag(last) = FAILURE_2_U32 => last.ret = Err(as_u32(last.regs[2]))
        /\ last.ret = Ok => Tag(last) = SUCCESS_2_U32

\* C2: whatever the process did so far, an upcall the kernel holds for a
\* subscribe slot points to a live upcall object and a buffer it holds for an
\* allow slot is a live buffer; kernel_upcall never ran on a freed object.
C2_NoDanglingRegistration ==
    /\ \A id \in SubscribeIds :
          kernel.upcalls[id].fn # 0 => kernel.upcalls[id].data \in Live("upcall")
    /\ \A id \in AllowIds :
          /\ kernel.rw[id] # ZeroBuffer => kernel.rw[id].addr \in Live("buffer")
          /\ kernel.ro[id] # ZeroBuffer => kernel.ro[id].addr \in Live("buffer")
    /\ \A i \in 1..Len(kernel.pending) : kernel.upcalls[kernel.pending[i]].fn # 0
    /\ ~uaf

\* C2 witness: a scope has just ended whose guard revoked a live
\* registration, and the object that was registered is still alive.
C2_Witness ==
    /\ last.op = "drop_subscribe"
    /\ Tag(last) = SUCCESS_2_U32
    /\ Payload1(last) = KernelUpcallAddr
    /\ Payload2(last) \in Live("upcall")

\* C3: the step in which a Subscribe guard goes out of scope issues exactly
\* one raw system call, Subscribe with the guard's driver and subscribe
\* number and the null upcall (0, 0); it leaves the guard's slot unregistered
\* and changes no other slot; and whenever an upcall object is freed, no
\* slot is registered to it any more (the unsubscribe came first).
C3_DropUnsubscribesItsSlot ==
    [][/\ (stack # <<>> /\ stack' = Pop /\ Top.kind = "sub") =>
            /\ last'.traps =
                   <<[class |-> SUBSCRIBE,
                      args |-> <<Register_from_usize(Top.driver), Register_from_usize(Top.num),
                                 Register_from_usize(0), Register_from_usize(0)>>]>>
            /\ kernel'.upcalls[<<Top.driver, Top.num>>] = NullUpcall
            /\ \A id \in SubscribeIds \ {<<Top.driver, Top.num>>} :
                   kernel'.upcalls[id] = kernel.upcalls[id]
       /\ (stack # <<>> /\ stack' = Pop /\ Top.kind = "upcall") =>
            \A id \in SubscribeIds : kernel.upcalls[id].data # Top.addr
      ]_vars

\* C3 witness: a guard went out of scope after an upcall was registered
\* through it, and its slot is unregistered now.
C3_Witness ==
    /\ last.op = "drop_subscribe"
    /\ Payload1(last) # 0
    /\ kernel.upcalls[last.id] = NullUpcall
    /\ stack # <<>> /\ Top.kind = "upcall" /\ Top.addr = Payload2(last)

\* C4: no subscribe slot ever has two live Subscribe guards.
C4_OneGuardPerSlot ==
    \A id \in SubscribeIds : Cardinality(GuardsFor("sub", id)) <= 1

\* C5: a subscribe call runs Config::returned_nonnull_upcall once exactly
\* when the kernel accepted the Subscribe (tag Success-with-2-u32) and
\* answered a nonzero previous upcall in r1, and then it returns Ok(()); a
\* refused Subscribe and an accepted one answering address 0 run no hook.
C5_HookOnlyOnReturnedUpcall ==
    last.op = "subscribe" =>
        /\ last.hook \in {0, 1}
        /\ last.hook = 1 <=> (Tag(last) = SUCCESS_2_U32 /\ Payload1(last) # 0)
        /\ last.hook = 1 => last.ret = Ok

\* C6: an allow_rw / allow_ro call the kernel refused with error code e
\* returns Err(e) and runs no hook; one the kernel accepted returns Ok(())
\* and runs Config::returned_nonzero_buffer exactly when the previous
\* (address, length) it answered is not (0, 0).
C6_AllowResultAndHook ==
    last.op \in {"allow_rw", "allow_ro"} =>
        IF Tag(last) = SUCCESS_2_U32
        THEN /\ last.ret = Ok
             /\ last.hook = (IF <<Payload1(last), Payload2(last)>> # <<0, 0>> THEN 1 ELSE 0)
        ELSE /\ last.ret = Err(as_u32(last.regs[2]))
             /\ last.hook = 0

\* What an unallow call of one class must have done to the kernel's slots.
Revoked(class, mine, other) ==
    LET id == last'.id IN
    /\ last'.traps =
           <<[class |-> class,
              args |-> <<Register_from_usize(id[1]), Register_from_usize(id[2]),
                         Register_from_usize(0), Register_from_usize(0)>>]>>
    /\ last'.ret = Ok => kernel'[mine][id] = ZeroBuffer
    /\ kernel[mine][id] = ZeroBuffer => kernel' = kernel
    /\ \A x \in AllowIds \ {id} : kernel'[mine][x] = kernel[mine][x]
    /\ kernel'[other] = kernel[other]
    /\ kernel'.upcalls = kernel.upcalls

\* C7: unallow_rw(driver, n) issues exactly one Read-Write Allow system call
\* with address 0 and length 0, unallow_ro(driver, n) exactly one Read-Only
\* Allow with address 0 and length 0; when the call returns Ok the kernel's
\* slot (driver, n) of that class is (0, 0) whatever was shared before; when
\* nothing was shared the kernel state is unchanged; no other slot changes.
C7_UnallowZeroesTheSlot ==
    [][/\ last'.op = "unallow_rw" => Revoked(ALLOW_RW, "rw", "ro")
       /\ last'.op = "unallow_ro" => Revoked(ALLOW_RO, "ro", "rw")
      ]_vars

\* C7 witness: unallow_rw has just revoked a buffer that was shared.
C7_Witness ==
    /\ last.op = "unallow_rw"
    /\ last.ret = Ok
    /\ Payload1(last) \in Live("buffer")
    /\ kernel.rw[last.id] = ZeroBuffer

\* C8: unsubscribe(driver, slot) returns nothing but unit, leaves the slot
\* unregistered and changes no other slot; on a slot with no registered
\* upcall it changes no registration at all; and a second unsubscribe of the
\* same slot right after the first changes nothing.
C8_UnsubscribeIdempotent ==
    [][last'.op = "unsubscribe" =>
          LET id == last'.id IN
          /\ last'.ret = Ok
          /\ kernel'.upcalls[id] = NullUpcall
          /\ \A x \in SubscribeIds \ {id} : kernel'.upcalls[x] = kernel.upcalls[x]
          /\ kernel.upcalls[id] = NullUpcall => kernel'.upcalls = kernel.upcalls
          /\ (last.op = "unsubscribe" /\ last.id = id) => kernel' = kernel
      ]_vars

\* C8 witness: unsubscribe has just been called on a slot that held no
\* registered upcall, while another slot holds one.
C8_Witness ==
    /\ last.op = "unsubscribe"
    /\ Tag(last) = SUCCESS_2_U32
    /\ Payload1(last) = 0
    /\ \E x \in SubscribeIds \ {last.id} : kernel.upcalls[x].fn # 0

\* C9: inside one yield_wait call the kernel runs at most one upcall, no
\* upcall starts while another is running, and yield_wait returns only after
\* exactly one upcall was delivered and its body ran to completion.
C9_YieldWaitRunsOneUpcall ==
    /\ yld.op = "yield_wait" =>
          /\ yld.delivered <= 1
          /\ pc = "upcall" => (yld.delivered = 1 /\ yld.completed = 0)
          /\ pc = "trap" => yld.completed = yld.delivered
    /\ last.op = "yield_wait" =>
          /\ Len(last.traps) = 1
          /\ last.delivered = 1
          /\ last.completed = 1

\* C9 witness: yield_wait returned after one upcall set its cell, while a
\* second upcall is still pending.
C9_Witness ==
    /\ last.op = "yield_wait"
    /\ last.delivered = 1
    /\ kernel.pending # <<>>
    /\ \E a \in Live("upcall") : cells[a]

\* C10: a yield_no_wait call never sleeps in the kernel: with nothing pending
\* its trap can return at once; it runs at most one upcall; and the value it
\* returns is Upcall exactly when an upcall ran during the call.
C10_YieldNoWaitPolls ==
    /\ (pc = "trap" /\ yld.op = "yield_no_wait") =>
          /\ ~KernelBlocks(yld, kernel)
          /\ yld.delivered <= 1
          /\ (yld.delivered = 0 /\ kernel.pending = <<>>) => ENABLED YieldNoWaitReturn
    /\ last.op = "yield_no_wait" =>
          /\ last.delivered <= 1
          /\ last.completed = last.delivered
          /\ last.ret.val \in {NoUpcall, Upcall}
          /\ last.ret.val = Upcall <=> last.delivered = 1

\* C10 witness: yield_no_wait returned Upcall after the upcall set its cell.
C10_Witness ==
    /\ last.op = "yield_no_wait"
    /\ last.ret.val = Upcall
    /\ \E a \in Live("upcall") : cells[a]

(***************************************************************************)
(* The calls of the facade, made by a process that owns an upcall object   *)
(* and a buffer and is inside the scopes of a Subscribe, an AllowRw and an *)
(* AllowRo guard for an installed and for an absent driver.                *)
(***************************************************************************)
FacadeInit ==
    /\ \E a \in UpcallObjs, b \in Buffers :
          stack = <<UpcallEntry(a), BufferEntry(b),
                    Subscribe_default(1, 0), Subscribe_default(2, 0),
                    AllowRw_default(1, 0), AllowRw_default(2, 0),
                    AllowRo_default(1, 0), AllowRo_default(2, 0)>>
    /\ kernel = [upcalls |-> [id \in SubscribeIds |-> NullUpcall],
                 rw |-> [id \in AllowIds |-> ZeroBuffer],
                 ro |-> [id \in AllowIds |-> ZeroBuffer],
                 pending |-> <<>>,
                 brk |-> HeapStart,
                 leds |-> NoLeds]
    /\ cells = [a \in UpcallObjs |-> FALSE]
    /\ pc = "run"
    /\ yld = NoYield
    /\ last = NoCall
    /\ uaf = FALSE
    /\ results = [a \in ResultObjs |-> None]
    /\ acc = NoAccessor
    /\ probe = NoProbe
    /\ ocell = NoCell
    /\ ddc = Register_from_ptr(0)

FacadeNext ==
    \/ Subscribe
    \/ Unsubscribe
    \/ AllowRw
    \/ UnallowRw
    \/ AllowRo
    \/ UnallowRo
    \/ Command
    \/ Memop
    \/ Sbrk
    \/ ExternCSbrk
    \/ YieldNoWait
    \/ YieldNoWaitReturn
    \/ ExitTerminate
    \/ ExitRestart
    \/ OomHandler

SpecFacade == FacadeInit /\ [][FacadeNext]_vars

(***************************************************************************)
(* The codecs at work: a CommandReturn is built by one of the constructors *)
(* and a Register from an integer; `probe` keeps what was built from what. *)
(***************************************************************************)
Built(op, input, cr) ==
    /\ probe' = [op |-> op, input |-> input, cr |-> cr, reg |-> Register_from_usize(0)]
    /\ UNCHANGED <<stack, kernel, cells, pc, yld, last, uaf, results, acc, ddc, ocell>>

Converted(op, input, reg) ==
    /\ probe' = [op |-> op, input |-> input, cr |-> CommandReturn_new(0, 0, 0, 0), reg |-> reg]
    /\ UNCHANGED <<stack, kernel, cells, pc, yld, last, uaf, results, acc, ddc, ocell>>

BuildFailure ==
    \E e \in ErrorCodeValues : Built("failure", <<e>>, failure(e))

BuildFailureU32 ==
    \E e \in ErrorCodeValues, v \in U32Values :
        Built("failure_u32", <<e, v>>, failure_u32(e, v))

BuildFailure2U32 ==
    \E e \in ErrorCodeValues, v0 \in U32Values, v1 \in U32Values :
        Built("failure_2_u32", <<e, v0, v1>>, failure_2_u32(e, v0, v1))

BuildFailureU64 ==
    \E e \in ErrorCodeValues, v \in U64Values :
        Built("failure_u64", <<e, v>>, failure_u64(e, v))

BuildSuccess == Built("success", <<>>, success)

BuildSuccessU32 ==
    \E v \in U32Values : Built("success_u32", <<v>>, success_u32(v))

BuildSuccess2U32 ==
    \E v0 \in U32Values, v1 \in U32Values :
        Built("success_2_u32", <<v0, v1>>, success_2_u32(v0, v1))

BuildSuccessU64 ==
    \E v \in U64Values : Built("success_u64", <<v>>, success_u64(v))

BuildSuccess3U32 ==
    \E v0 \in U32Values, v1 \in U32Values, v2 \in U32Values :
        Built("success_3_u32", <<v0, v1, v2>>, success_3_u32(v0, v1, v2))

BuildSuccessU32U64 ==
    \E v0 \in U32Values, v1 \in U64Values :
        Built("success_u32_u64", <<v0, v1>>, success_u32_u64(v0, v1))

\* CommandReturn::new with a tag no variant is defined for.
BuildUnknown ==
    \E t \in UnknownVariants, v \in U32Values :
        Built("new", <<t, v, v, v>>, CommandReturn_new(t, v, v, v))

ConvertUsize ==
    \E x \in UsizeValues : Converted("usize", <<x>>, Register_from_usize(x))

ConvertU32 ==
    \E x \in U32Values : Converted("u32", <<x>>, Register_from_u32(x))

ConvertErrorCode ==
    \E x \in ErrorCodes : Converted("ErrorCode", <<x>>, Register_from_ErrorCode(x))

CodecNext ==
    \/ BuildFailure
    \/ BuildFailureU32
    \/ BuildFailure2U32
    \/ BuildFailureU64
    \/ BuildSuccess
    \/ BuildSuccessU32
    \/ BuildSuccess2U32
    \/ BuildSuccessU64
    \/ BuildSuccess3U32
    \/ BuildSuccessU32U64
    \/ BuildUnknown
    \/ ConvertUsize
    \/ ConvertU32
    \/ ConvertErrorCode

SpecCodec == Init /\ [][CodecNext]_vars

\* C11: upcall_result_yield returns only a result the cell holds at the
\* moment of return (never a value when the cell is None); called on a cell
\* that already holds a result it returns at once with no yield_wait; and
\* every check that finds the cell empty is followed by exactly one
\* yield_wait call before the next check.
C11_ResultYieldReturnsStoredResult ==
    [][/\ last'.op = "upcall_result_yield" =>
             LET cell == results'[last'.cell] IN
             /\ cell.some
             /\ last'.ret.ok <=> cell.val = 0
             /\ cell.val \in ErrorCodes => last'.ret = Err(cell.val)
             /\ pc = "run" => (results[last'.cell].some /\ last'.yields = 0)
       /\ (pc \in {"run", "result"} /\ pc' # pc /\ acc'.active) =>
             /\ ~results[acc'.cell].some
             /\ pc' = "trap"
             /\ yld'.trap = [class |-> YIELD, args |-> <<Register_from_usize(WAIT)>>]
             /\ acc'.sinceCheck = 0
       /\ (pc = "run" /\ acc'.active) => acc'.yields = 1
       /\ pc = "result" => (acc.active /\ acc.sinceCheck = 1)
       /\ (acc.active /\ pc \in {"trap", "upcall"}) =>
             \/ acc' = acc
             \/ /\ pc' = "result"
                /\ last'.op = "yield_wait"
                /\ acc' = [acc EXCEPT !.sinceCheck = 1]
      ]_vars

\* C11 witness: upcall_result_yield returned the error a driver reported,
\* after it had to wait for it.
C11_Witness ==
    /\ last.op = "upcall_result_yield"
    /\ last.yields >= 1
    /\ last.ret = Err(NODEVICE)
    /\ results[last.cell] = Some(NODEVICE)

\* An upcall for the object at address a is pending while
\* upcall_result_yield waits on it, or has stored its result already.
Awaited(a) ==
    /\ acc.active /\ acc.cell = a
    /\ \/ results[a].some
       \/ \E i \in DOMAIN kernel.pending : kernel.upcalls[kernel.pending[i]].data = a

\* upcall_result_yield has just returned the result stored at address a.
Returned(a) ==
    /\ last.op = "upcall_result_yield" /\ last.cell = a
    /\ results[a].some
    /\ last.ret.ok <=> results[a].val = 0

\* C12: when the kernel delivers its pending upcalls to a yielding process,
\* an upcall_result_yield call waiting on a registered cell for which an
\* upcall is pending (or already stored) eventually returns that result; and
\* a yield_wait that returns without the result being stored (the upcall of
\* another slot ran) is followed by another yield_wait, not by a return.
C12_ResultYieldTerminates ==
    /\ \A a \in ResultObjs : Awaited(a) ~> Returned(a)
    /\ [][(pc = "result" /\ ~results[acc.cell].some /\ pc' # "result") =>
             /\ pc' = "trap"
             /\ acc'.active /\ acc'.cell = acc.cell
             /\ yld'.op = "yield_wait"
             /\ last'.op # "upcall_result_yield"
         ]_vars

\* C12 witness: upcall_result_yield returned after two yield_wait calls, the
\* first of which ran the upcall of another object.
C12_Witness ==
    /\ last.op = "upcall_result_yield"
    /\ last.yields = 2
    /\ \E a \in UpcallObjs : cells[a]

\* C13: every call of subscribe, allow_rw, allow_ro, unallow_rw, unallow_ro,
\* command, memop and sbrk issues exactly one raw system call, and when the
\* kernel answers one of them (command apart, which returns the registers)
\* with a failure tag and error code e in r1, the call returns Err(e).
C13_ErrorsPropagateOneSyscall ==
    /\ last.op \in {"subscribe", "allow_rw", "allow_ro", "unallow_rw", "unallow_ro",
                    "command", "memop", "sbrk"} =>
          Len(last.traps) = 1
    /\ (/\ last.op \in {"subscribe", "allow_rw", "allow_ro", "unallow_rw", "unallow_ro",
                         "memop", "sbrk"}
        /\ Tag(last) < SUCCESS) =>
          /\ ~last.ret.ok
          /\ last.ret.val = Payload1(last)

\* C14: exit_terminate(code) issues exactly the Exit system call with
\* (TERMINATE, code) and exit_restart(code) exactly the Exit system call with
\* (RESTART, code); the process is gone after either, and nothing of it ever
\* runs again.
C14_ExitNeverReturns ==
    [][/\ last'.op = "exit_terminate" =>
             /\ last'.traps =
                    <<[class |-> EXIT,
                       args |-> <<Register_from_usize(TERMINATE),
                                  Register_from_usize(last'.args[1])>>]>>
             /\ pc' = "exited"
       /\ last'.op = "exit_restart" =>
             /\ last'.traps =
                    <<[class |-> EXIT,
                       args |-> <<Register_from_usize(RESTART),
                                  Register_from_usize(last'.args[1])>>]>>
             /\ pc' = "exited"
       /\ pc = "exited" => vars' = vars
      ]_vars

\* C14 witness: the process called exit_terminate(1) after it had moved its
\* break.
C14_Witness ==
    /\ pc = "exited"
    /\ last.op = "exit_terminate"
    /\ last.args = <<1>>
    /\ ddc = Register_from_ptr(HeapStart)

\* C15: the out-of-memory handler issues the low-level-debug alert command
\* with the HeapOOM code first and the Exit system call with
\* (TERMINATE, NoMem) second, and nothing else; the process is gone after it
\* and the allocating code never runs again.
C15_OomAlertsThenTerminates ==
    [][/\ last'.op = "oom_handler" =>
             /\ last'.traps =
                    <<[class |-> COMMAND,
                       args |-> <<Register_from_usize(LOW_LEVEL_DEBUG),
                                  Register_from_usize(PRINT_ALERT_CODE),
                                  Register_from_usize(HeapOOM), Register_from_usize(0)>>],
                      [class |-> EXIT,
                       args |-> <<Register_from_usize(TERMINATE),
                                  Register_from_usize(NOMEM)>>]>>
             /\ pc' = "exited"
       /\ last.op = "oom_handler" => vars' = vars
      ]_vars

\* C15 witness: the handler ran in a process that had moved its break
\* before.
C15_Witness ==
    /\ last.op = "oom_handler"
    /\ pc = "exited"
    /\ Len(last.traps) = 2
    /\ ddc = Register_from_ptr(HeapStart)

\* C16: a CommandReturn built by one of the ten constructors, read by the
\* accessor of the same name, gives Some of exactly the payload it was built
\* from (and is_success is true of success()).
C16_MatchingAccessorReturnsPayload ==
    /\ probe.op = "failure" => get_failure(probe.cr) = Payload(probe.input)
    /\ probe.op = "failure_u32" => get_failure_u32(probe.cr) = Payload(probe.input)
    /\ probe.op = "failure_2_u32" => get_failure_2_u32(probe.cr) = Payload(probe.input)
    /\ probe.op = "failure_u64" => get_failure_u64(probe.cr) = Payload(probe.input)
    /\ probe.op = "success" => is_success(probe.cr)
    /\ probe.op = "success_u32" => get_success_u32(probe.cr) = Payload(probe.input)
    /\ probe.op = "success_2_u32" => get_success_2_u32(probe.cr) = Payload(probe.input)
    /\ probe.op = "success_u64" => get_success_u64(probe.cr) = Payload(probe.input)
    /\ probe.op = "success_3_u32" => get_success_3_u32(probe.cr) = Payload(probe.input)
    /\ probe.op = "success_u32_u64" => get_success_u32_u64(probe.cr) = Payload(probe.input)

\* C16 witness: success_u32_u64 built from the largest u32 and a u64 whose
\* halves differ.
C16_Witness ==
    /\ probe.op = "success_u32_u64"
    /\ probe.input = <<2 ^ U32Bits - 1, 3 * (2 ^ U32Bits) + 5>>

\* The return variants, and the accessor of each.
Variants ==
    {FAILURE, FAILURE_U32, FAILURE_2_U32, FAILURE_U64, SUCCESS, SUCCESS_U32,
     SUCCESS_2_U32, SUCCESS_U64, SUCCESS_3_U32, SUCCESS_U32_U64}

AccessorOf(v, cr) ==
    CASE v = FAILURE -> get_failure(cr)
      [] v = FAILURE_U32 -> get_failure_u32(cr)
      [] v = FAILURE_2_U32 -> get_failure_2_u32(cr)
      [] v = FAILURE_U64 -> get_failure_u64(cr)
      [] v = SUCCESS -> IF is_success(cr) THEN Payload(<<>>) ELSE NoPayload
      [] v = SUCCESS_U32 -> get_success_u32(cr)
      [] v = SUCCESS_2_U32 -> get_success_2_u32(cr)
      [] v = SUCCESS_U64 -> get_success_u64(cr)
      [] v = SUCCESS_3_U32 -> get_success_3_u32(cr)
      [] v = SUCCESS_U32_U64 -> get_success_u32_u64(cr)

\* A CommandReturn has just been built.
HasCommandReturn == probe.op \notin {"none", "usize", "u32", "ErrorCode"}

\* C17: on every CommandReturn, every accessor whose variant is not the tag
\* stored in register 0 returns None (is_success false), whatever the
\* payload registers hold.
C17_OtherAccessorsReturnNone ==
    HasCommandReturn =>
        \A v \in Variants \ {probe.cr.return_variant} : AccessorOf(v, probe.cr) = NoPayload

\* C17 witness: success_2_u32(1, 1), on which get_success_u32 and
\* get_failure return None.
C17_Witness ==
    /\ probe.op = "success_2_u32"
    /\ probe.input = <<1, 1>>
    /\ get_success_u32(probe.cr) = NoPayload
    /\ get_failure(probe.cr) = NoPayload

\* The u64 a constructor was given, and the two registers it went to.
U64Probe ==
    CASE probe.op = "failure_u64" ->
             [value |-> probe.input[2], lsb |-> probe.cr.r2, msb |-> probe.cr.r3]
      [] probe.op = "success_u64" ->
             [value |-> probe.input[1], lsb |-> probe.cr.r1, msb |-> probe.cr.r2]
      [] probe.op = "success_u32_u64" ->
             [value |-> probe.input[2], lsb |-> probe.cr.r2, msb |-> probe.cr.r3]

\* C18: the two registers a u64 is split into each hold a 32-bit half, low
\* half first, and joining them the way the u64 accessors do gives the u64
\* back, for 0, for the largest u64 and for values with a zero half.
C18_SplitJoinRecoversU64 ==
    probe.op \in {"failure_u64", "success_u64", "success_u32_u64"} =>
        /\ U64Probe.lsb < 2 ^ U32Bits
        /\ U64Probe.msb < 2 ^ U32Bits
        /\ U64Probe.lsb + U64Probe.msb * (2 ^ U32Bits) = U64Probe.value
        /\ u64_from_usizes(U64Probe.lsb, U64Probe.msb) = U64Probe.value

\* C18 witness: a u64 whose low half is zero and whose high half is all
\* ones went through success_u64.
C18_Witness ==
    /\ probe.op = "success_u64"
    /\ probe.input = <<(2 ^ U32Bits - 1) * (2 ^ U32Bits)>>
    /\ probe.cr.r1 = 0
    /\ probe.cr.r2 = 2 ^ U32Bits - 1

C20_NarrowingToU32 ==
    probe.op \in {"usize", "u32", "ErrorCode"} =>
        LET v == probe.input[1] IN
        IF v > 2 ^ U32Bits - 1
        THEN /\ ~u32_try_from(probe.reg).ok
             /\ as_u32(probe.reg) = v % (2 ^ U32Bits)
        ELSE /\ u32_try_from(probe.reg) = [ok |-> TRUE, val |-> v]
             /\ as_u32(probe.reg) = v

\* C20 witness: a Register holding u32::MAX + 2, which as_u32 reads as 1.
C20_Witness ==
    /\ probe.op = "usize"
    /\ probe.input = <<2 ^ U32Bits + 1>>
    /\ as_u32(probe.reg) = 1
    /\ ~u32_try_from(probe.reg).ok

(***************************************************************************)
(* The cell upcalls at work: the process owns one Cell<Option<tuple>> of   *)
(* some tuple type and the Cell<bool> objects; upcalls are invoked on them *)
(* with three arguments, and the Option cell is read and reset.            *)
(***************************************************************************)
\* Arguments the upcalls are invoked with: the (1, 2, 3) of upcall_impls,
\* zero, error codes, and values that do not fit 32 bits.
CellArg0 ==
    {0, 1, NODEVICE, 14, 2 ^ U32Bits - 1, 2 ^ U32Bits, 2 ^ U32Bits + NOMEM}
CellArg1 == {0, 2, 2 ^ U32Bits + 2}
CellArg2 == {3, 2 ^ U32Bits + 3}

\* cell.upcall(arg0, arg1, arg2) on the Cell<Option<tuple>>.
CellOptionUpcall ==
    \E arg0 \in CellArg0, arg1 \in CellArg1, arg2 \in CellArg2 :
        /\ ocell' = [ocell EXCEPT !.value = Cell_Option_upcall(ocell.type, arg0, arg1, arg2)]
        /\ last' = [NoCall EXCEPT !.op = "Cell<Option>::upcall", !.args = <<arg0, arg1, arg2>>]
        /\ UNCHANGED <<stack, kernel, cells, pc, yld, uaf, results, acc, probe, ddc>>

\* cell_bool.upcall(arg0, arg1, arg2) on one of the Cell<bool> objects.
CellBoolUpcall ==
    \E a \in UpcallObjs, arg0 \in CellArg0, arg1 \in CellArg1, arg2 \in CellArg2 :
        /\ cells' = [cells EXCEPT ![a] = Cell_bool_upcall(@, arg0, arg1, arg2)]
        /\ last' = [NoCall EXCEPT !.op = "Cell<bool>::upcall", !.cell = a,
                                  !.args = <<arg0, arg1, arg2>>]
        /\ UNCHANGED <<stack, kernel, pc, yld, uaf, results, acc, probe, ddc, ocell>>

\* cell.upcall_result() on a StandardResult type.
CellUpcallResult ==
    /\ ocell.type \in StandardResultTypes
    /\ last' = [NoCall EXCEPT !.op = "upcall_result",
                              !.ret = implement_result_upcall_result(ocell.value)]
    /\ UNCHANGED <<stack, kernel, cells, pc, yld, uaf, results, acc, probe, ddc, ocell>>

\* cell.reset() on a StandardResult type.
CellReset ==
    /\ ocell.type \in StandardResultTypes
    /\ ocell' = [ocell EXCEPT !.value = implement_result_reset(@)]
    /\ last' = [NoCall EXCEPT !.op = "reset"]
    /\ UNCHANGED <<stack, kernel, cells, pc, yld, uaf, results, acc, probe, ddc>>

\* Cell::new(None) of any of the tuple types, Cell::new(false) twice.
CellsInit ==
    /\ stack = <<>>
    /\ kernel = [upcalls |-> [id \in SubscribeIds |-> NullUpcall],
                 rw |-> [id \in AllowIds |-> ZeroBuffer],
                 ro |-> [id \in AllowIds |-> ZeroBuffer],
                 pending |-> <<>>,
                 brk |-> HeapStart,
                 leds |-> NoLeds]
    /\ cells = [a \in UpcallObjs |-> FALSE]
    /\ pc = "run"
    /\ yld = NoYield
    /\ last = NoCall
    /\ uaf = FALSE
    /\ results = [a \in ResultObjs |-> None]
    /\ acc = NoAccessor
    /\ probe = NoProbe
    /\ ddc = Register_from_ptr(0)
    /\ \E type \in CellTypes : ocell = [type |-> type, value |-> NoneTuple]

CellsNext ==
    \/ CellOptionUpcall
    \/ CellBoolUpcall
    \/ CellUpcallResult
    \/ CellReset

SpecCells == CellsInit /\ [][CellsNext]_vars

\* The number of arguments a tuple type keeps, and whether it keeps them as u32.
Arity(type) ==
    CASE type = "()" -> 0
      [] type \in {"(usize,)", "(u32,)"} -> 1
      [] type \in {"(usize, usize)", "(u32, u32)"} -> 2
      [] OTHER -> 3

IsU32(type) == type \in {"(u32,)", "(u32, u32)", "(u32, u32, u32)"}

\* C21: an upcall on a Cell<Option<tuple>> leaves Some of the first 0/1/2/3
\* arguments in order, each mod 2^32 in the u32 cells, and nothing of the
\* other arguments; an upcall on a Cell<bool> leaves it true whatever the
\* arguments and the value before, and leaves the other Cell<bool> alone.
C21_CellUpcallStoresPrefix ==
    [][/\ last'.op = "Cell<Option>::upcall" =>
            /\ ocell'.type = ocell.type
            /\ ocell'.value.some
            /\ ocell'.value.val =
                  [i \in 1..Arity(ocell.type) |->
                      IF IsU32(ocell.type) THEN last'.args[i] % (2 ^ U32Bits)
                      ELSE last'.args[i]]
       /\ last'.op = "Cell<bool>::upcall" =>
            /\ cells'[last'.cell] = TRUE
            /\ \A a \in UpcallObjs \ {last'.cell} : cells'[a] = cells[a]]_vars

\* C21 witness: the two-u32 cell was invoked with arguments above u32::MAX
\* and holds their low bits; a Cell<bool> is true.
C21_Witness ==
    /\ last.op = "Cell<Option>::upcall"
    /\ ocell.type = "(u32, u32)"
    /\ last.args = <<2 ^ U32Bits + NOMEM, 2 ^ U32Bits + 2, 3>>
    /\ ocell.value = Some(<<NOMEM, 2>>)
    /\ \E a \in UpcallObjs : cells[a]

\* C22: upcall_result of a StandardResult type is None before any upcall;
\* after an upcall whose argument 0 is 0 it is Some(Ok(the other stored
\* arguments)); after an upcall whose argument 0 is not 0 it is Some(Err) of
\* the ErrorCode with that number, or of Fail when no ErrorCode has it.
C22_UpcallResultView ==
    last.op = "upcall_result" =>
        LET cell == ocell.value
            r == last.ret
        IN  /\ ~cell.some => ~r.some
            /\ (cell.some /\ Head(cell.val) = 0) =>
                  /\ r.some /\ r.res.ok
                  /\ r.res.out = Tail(cell.val)
            /\ (cell.some /\ Head(cell.val) # 0) =>
                  /\ r.some /\ ~r.res.ok
                  /\ r.res.val = IF Head(cell.val) \in ErrorCodes
                                 THEN Head(cell.val) ELSE FAIL

\* C23: in the blocking-accessor runs, a StandardResult changes only when an
\* upcall stores into it or reset() empties it, never when it is read; and
\* upcall_result_yield called on a StandardResult that holds a value returns
\* the result of that value at once, without a yield, leaving it in place.
C23_ReadsKeepStoredValue ==
    [][/\ results' # results =>
            \/ /\ pc = "upcall"
               /\ \E a \in ResultObjs, x \in UpcallArgs :
                     results' = [results EXCEPT ![a] = Some(x)]
            \/ /\ pc = "run" /\ last'.op = "none"
               /\ \E a \in ResultObjs :
                     results[a].some /\ results' = [results EXCEPT ![a] = None]
       /\ \A a \in ResultObjs :
            (pc = "run" /\ results[a].some
                /\ last'.op = "upcall_result_yield" /\ last'.cell = a) =>
               /\ last'.yields = 0
               /\ last'.ret = IF results[a].val = 0 THEN Ok
                              ELSE Err(ErrorCode_or_Fail(results[a].val))
               /\ results'[a] = results[a]
               /\ pc' = "run"]_vars

\* C23 witness: upcall_result_yield returned Err(NoDevice) without a yield
\* from a StandardResult that still holds the stored NoDevice.
C23_Witness ==
    /\ last.op = "upcall_result_yield" /\ last.yields = 0
    /\ last.ret = Err(NODEVICE)
    /\ results[last.cell] = Some(NODEVICE)

\* C24: memop returns Err(e) when the kernel answered a failure tag with
\* error code e in r1, and otherwise Ok of the second result register as the
\* kernel left it, capability tag included.
C24_MemopResult ==
    last.op = "memop" =>
        IF Tag(last) \in {FAILURE, FAILURE_U32, FAILURE_2_U32, FAILURE_U64}
        THEN /\ ~last.ret.ok
             /\ last.ret.val = Payload1(last)
        ELSE /\ last.ret.ok
             /\ last.ret.cap = last.regs[2]

\* C24 witness: memop asked for the start of memory and got it back as a
\* tagged capability.
C24_Witness ==
    /\ last.op = "memop" /\ last.args[1] = MEMOP_MEM_START
    /\ last.ret.ok
    /\ last.ret.cap = [addr |-> MemoryStart, tag |-> TRUE]

\* C25: sbrk(offset) issues one Memop system call with operation 1 and the
\* offset; it returns Ok(the break before the call) when the kernel moved
\* the break and Err(e) with the kernel's e when it did not.  _sbrk and sbrk
\* of the C ABI return the break before the call when the kernel moved it
\* and the null pointer when it did not.
C25_SbrkPreviousBreakOrNull ==
    [][/\ last'.op \in {"sbrk", "extern_C__sbrk", "extern_C_sbrk"} =>
            /\ Len(last'.traps) = 1
            /\ last'.traps[1].class = MEMOP
            /\ last'.traps[1].args[1] = Register_from_usize(MEMOP_SBRK)
            /\ usize_from_Register(last'.traps[1].args[2]) = last'.args[1]
       /\ last'.op = "sbrk" =>
            IF Tag(last') >= SUCCESS
            THEN last'.ret.ok /\ last'.ret.val = kernel.brk
            ELSE ~last'.ret.ok /\ last'.ret.val = Payload1(last')
       /\ last'.op \in {"extern_C__sbrk", "extern_C_sbrk"} =>
            IF Tag(last') >= SUCCESS
            THEN last'.ret.ptr = kernel.brk
            ELSE last'.ret.ptr = 0]_vars

\* C25 witness: the C sbrk returned the null pointer because the kernel
\* refused, with NoMem, to move a break it had moved before.
C25_Witness ==
    /\ last.op = "extern_C_sbrk"
    /\ Tag(last) = FAILURE /\ Payload1(last) = NOMEM
    /\ last.ret.ptr = 0
    /\ kernel.brk > HeapStart

(***************************************************************************)
(* The LED API (apis/leds) over the facade, against the simulated kernel   *)
(* of its tests: a kernel with no driver, or with fake::Leds<10> added.    *)
(***************************************************************************)
\* The simulated kernel puts the CommandReturn of the LED driver in the four
\* result registers.
DriverAnswer(k, r) ==
    [k |-> [k EXCEPT !.leds = r.driver],
     regs |-> <<Register_from_usize(r.ret.return_variant), Register_from_usize(r.ret.r1),
                Register_from_usize(r.ret.r2), Register_from_usize(r.ret.r3)>>]

\* The Command system call of the simulated kernel, fake::Syscalls: the LED
\* driver when the kernel has it, else Failure with NoDevice.
fake_Kernel_command(k, args) ==
    IF args[1].addr = LEDS_DRIVER_NUM /\ k.leds.installed
    THEN DriverAnswer(k, fake_Leds_command(k.leds, args[2].addr, as_u32(args[3])))
    ELSE [k |-> k,
          regs |-> <<Register_from_usize(FAILURE), Register_from_usize(NODEVICE),
                     Register_from_usize(0), Register_from_usize(0)>>]

\* Syscalls::command over fake::Syscalls, as the tests of the API call it.
fake_Syscalls_command(k, driver_id, command_id, argument0, argument1) ==
    LET sc == fake_Kernel_command(k,
                  <<Register_from_u32(driver_id), Register_from_u32(command_id),
                    Register_from_usize(argument0), Register_from_usize(argument1)>>)
    IN [k |-> sc.k, traps |-> <<>>, regs |-> sc.regs,
        ret |-> CommandReturn_new(as_u32(sc.regs[1]), usize_from_Register(sc.regs[2]),
                                  usize_from_Register(sc.regs[3]),
                                  usize_from_Register(sc.regs[4])),
        hook |-> 0]

\* Leds::count: the payload of Success-with-u32, None otherwise.
Leds_count(k) ==
    LET r == fake_Syscalls_command(k, LEDS_DRIVER_NUM, LEDS_EXISTS, 0, 0) IN
    [r EXCEPT !.ret = get_success_u32(r.ret)]

\* Leds::on, Leds::off: one command, its result dropped.
Leds_on(k, led) == fake_Syscalls_command(k, LEDS_DRIVER_NUM, LED_ON, led, 0)

Leds_off(k, led) == fake_Syscalls_command(k, LEDS_DRIVER_NUM, LED_OFF, led, 0)

\* Leds::toggle that switches the slot on.
Leds_toggle_as_on(k, led) == fake_Syscalls_command(k, LEDS_DRIVER_NUM, LED_ON, led, 0)

\* Leds::toggle
Leds_toggle(k, led) == fake_Syscalls_command(k, LEDS_DRIVER_NUM, LED_TOGGLE, led, 0)

LedsCall(op, args, r) ==
    /\ pc = "run"
    /\ kernel' = r.k
    /\ last' = [Called(op, <<LEDS_DRIVER_NUM, 0>>, r) EXCEPT !.args = args]
    /\ UNCHANGED <<results, acc, probe, ocell, ddc, stack, cells, pc, yld, uaf>>

LedsCount == LedsCall("Leds::count", <<>>, Leds_count(kernel))

LedsOn == \E led \in LedIndices : LedsCall("Leds::on", <<led>>, Leds_on(kernel, led))

LedsOff == \E led \in LedIndices : LedsCall("Leds::off", <<led>>, Leds_off(kernel, led))

LedsToggle ==
    \E led \in LedIndices : LedsCall("Leds::toggle", <<led>>, Leds_toggle(kernel, led))

\* fake::Kernel::new(), then kernel.add_driver(&fake::Leds::<10>::new()) or not.
LedsInit ==
    /\ stack = <<>>
    /\ \E installed \in BOOLEAN :
          kernel = [upcalls |-> [id \in SubscribeIds |-> NullUpcall],
                    rw |-> [id \in AllowIds |-> ZeroBuffer],
                    ro |-> [id \in AllowIds |-> ZeroBuffer],
                    pending |-> <<>>,
                    brk |-> HeapStart,
                    leds |-> [NoLeds EXCEPT !.installed = installed]]
    /\ cells = [a \in UpcallObjs |-> FALSE]
    /\ pc = "run"
    /\ yld = NoYield
    /\ last = NoCall
    /\ uaf = FALSE
    /\ results = [a \in ResultObjs |-> None]
    /\ acc = NoAccessor
    /\ probe = NoProbe
    /\ ddc = Register_from_ptr(0)
    /\ ocell = NoCell

LedsNext ==
    \/ LedsCount
    \/ LedsOn
    \/ LedsOff
    \/ LedsToggle

SpecLeds == LedsInit /\ [][LedsNext]_vars

\* get_led of the simulated driver.
get_led(k, led) == k.leds.leds[led]

\* C26: against the simulated kernel with the 10-slot LED driver every slot
\* starts false; on(i), off(i), toggle(i) with i < 10 leave slot i true,
\* false, negated, and every other slot as it was; count() is Some(10) with
\* the driver and None without it.
C26_LedsSwitchOneSlot ==
    /\ \A led \in 0..9 : ~get_led(kernel, led)
    /\ [][/\ (/\ kernel.leds.installed
              /\ last'.op \in {"Leds::on", "Leds::off", "Leds::toggle"}
              /\ last'.args[1] < 10) =>
                LET i == last'.args[1] IN
                /\ get_led(kernel', i) = CASE last'.op = "Leds::on" -> TRUE
                                   [] last'.op = "Leds::off" -> FALSE
                                   [] last'.op = "Leds::toggle" -> ~get_led(kernel, i)
                /\ \A j \in (0..9) \ {i} : get_led(kernel', j) = get_led(kernel, j)
          /\ last'.op = "Leds::count" =>
                last'.ret = IF kernel.leds.installed THEN Payload(<<10>>) ELSE NoPayload]_vars

\* C26 witness: toggle switched slot 9 off again while slot 0 is on.
C26_Witness ==
    /\ kernel.leds.installed
    /\ last.op = "Leds::toggle" /\ last.args = <<9>>
    /\ ~get_led(kernel, 9) /\ get_led(kernel, 0)

\* C27: on, off or toggle for an index that is not below the number of
\* slots leaves every slot as it was.
C27_LedsOutOfRangeNoOp ==
    [][(/\ last'.op \in {"Leds::on", "Leds::off", "Leds::toggle"}
        /\ last'.args[1] >= NUM_LEDS) =>
            \A led \in 0..(NUM_LEDS - 1) : get_led(kernel', led) = get_led(kernel, led)]_vars

\* C27 witness: toggle(11) was issued against the 10 slots while slot 1 is on.
C27_Witness ==
    /\ kernel.leds.installed
    /\ last.op = "Leds::toggle" /\ last.args = <<11>>
    /\ Tag(last) = FAILURE
    /\ get_led(kernel, 1)

(***************************************************************************)
(* The trampoline with upcall bodies that may unwind: the process of the   *)
(* blocking-accessor runs registers its objects and yields, and an upcall  *)
(* body either completes or unwinds.                                       *)
(***************************************************************************)
TrampolineNext ==
    \/ Subscribe
    \/ DriverEvent
    \/ YieldWait
    \/ YieldNoWait
    \/ DeliverUpcall
    \/ KernelUpcall
    \/ KernelUpcallUnwinds
    \/ YieldWaitReturn
    \/ YieldNoWaitReturn

SpecTrampoline == ResultInit /\ [][TrampolineNext]_vars

\* The Exit system call ExitOnDrop issues.
ExitOnDropTrap ==
    [class |-> EXIT, args |-> <<Register_from_usize(TERMINATE), Register_from_usize(0)>>]

\* C28: control leaves kernel_upcall for the kernel only after the upcall
\* body completed, and then no Exit system call was made and the process
\* lives on; when the body did not complete, the process is terminated by
\* the Exit system call of the ExitOnDrop guard and never runs again.
C28_TrampolineReturnsOnlyOnCompletion ==
    [][/\ (pc = "upcall" /\ pc' = "trap") =>
            /\ yld'.completed = yld.completed + 1
            /\ last'.traps = <<>>
            /\ kernel' = kernel
       /\ (pc = "upcall" /\ pc' # "upcall" /\ yld'.completed = yld.completed) =>
            /\ pc' = "exited"
            /\ last'.traps = <<ExitOnDropTrap>>
       /\ pc = "exited" => pc' = "exited"]_vars

\* C28 witness: an upcall body unwound during a yield-wait and the process
\* was terminated inside the trampoline.
C28_Witness ==
    /\ pc = "exited"
    /\ last.op = "kernel_upcall"
    /\ yld.op = "yield_wait" /\ yld.delivered = 1 /\ yld.completed = 0

\* A register as the kernel sees it: a tagged capability, a plain integer.
Tagged(addr) == [addr |-> addr, tag |-> TRUE]

Plain(value) == [addr |-> value, tag |-> FALSE]

a(n) == 10 + n

\* ra, t0-t2, a0-a7, t3-t6: the registers the calling convention lets a
\* callee overwrite. x2-x4 are sp, gp, tp; x8, x9, x18-x27 are callee-saved.
CallerSaved == {1} \cup (5..7) \cup (10..17) \cup (28..31)

\* The two builds of the asm! blocks, cfg(target_feature = "xcheri") or not.
Builds == {"riscv", "xcheri"}

RawEntryPoints == {"yield1", "yield2", "syscall1", "syscall2", "syscall4"}

\* The argument, result and class-selector registers of each entry point.
AbiRegisters(entry) ==
    CASE entry = "yield1" -> {a(0), a(4)}
      [] entry = "yield2" -> {a(0), a(1), a(4)}
      [] entry = "syscall1" -> {a(0), a(1), a(4)}
      [] entry = "syscall2" -> {a(0), a(1), a(4)}
      [] entry = "syscall4" -> {a(0), a(1), a(2), a(3), a(4)}

\* The operand list of each asm! block: out are its inlateout and lateout
\* operands, after the registers its instructions read once ecall returned.
AsmOperands(entry, build) ==
    CASE entry \in {"yield1", "yield2"} ->
            [out |-> CallerSaved, after |-> {}]
      [] entry = "syscall1" ->
            [out |-> {a(0), a(1)}, after |-> {}]
      [] entry = "syscall2" /\ build = "riscv" ->
            [out |-> {a(0), a(1)}, after |-> {}]
      [] entry = "syscall2" /\ build = "xcheri" ->
            [out |-> {a(0), a(5), a(1)}, after |-> {a(5)}]
      [] entry = "syscall4" /\ build = "riscv" ->
            [out |-> {a(0), a(1), a(2), a(3)}, after |-> {}]
      [] entry = "syscall4" /\ build = "xcheri" ->
            [out |-> {a(0), a(1), a(5), a(6), a(2), a(3)}, after |-> {a(5), a(6)}]

\* The kernel overwrites at most this many scratch registers in one trap.
MaxScratch == 2

\* The registers the kernel may use as scratch during a trap of the entry
\* point: the caller-saved ones that carry no argument, result or selector.
KernelScratch(entry) ==
    {scratch \in SUBSET (CallerSaved \ AbiRegisters(entry)) :
        Cardinality(scratch) <= MaxScratch}

\* The process enters a raw entry point: the instructions before ecall
\* ran, the trap is taken.
RawCall(entry) ==
    /\ pc = "run"
    /\ pc' = "ecall"
    /\ \E build \in Builds :
          last' = [op |-> entry, build |-> build, returned |-> FALSE,
                   scratch |-> {}, lost |-> {}, wild |-> {}]
    /\ UNCHANGED <<kernel, results, acc, probe, ocell, ddc, stack, cells, yld, uaf>>

\* The kernel returns from the trap having overwritten the registers of
\* scratch, and the instructions after ecall run. lost are the overwritten
\* registers the compiler may still hold a value in, wild the overwritten
\* registers the block then uses as a store address.
RawReturn ==
    /\ pc = "ecall"
    /\ pc' = "run"
    /\ \E scratch \in KernelScratch(last.op) :
          LET operands == AsmOperands(last.op, last.build) IN
          last' = [last EXCEPT !.returned = TRUE,
                               !.scratch = scratch,
                               !.lost = scratch \ operands.out,
                               !.wild = scratch \cap operands.after]
    /\ UNCHANGED <<kernel, results, acc, probe, ocell, ddc, stack, cells, yld, uaf>>

RawYield1 == RawCall("yield1")

RawYield2 == RawCall("yield2")

RawSyscall1 == RawCall("syscall1")

RawSyscall2 == RawCall("syscall2")

RawSyscall4 == RawCall("syscall4")

RawNext ==
    \/ RawYield1
    \/ RawYield2
    \/ RawSyscall1
    \/ RawSyscall2
    \/ RawSyscall4
    \/ RawReturn

SpecRaw == FacadeInit /\ [][RawNext]_vars

\* C30: in every raw entry point a register the kernel may use as scratch
\* is declared as written by the trap, so no register the kernel overwrote
\* still holds a value of the program, and none is used after the trap as
\* the address a tagged result is stored to.
C30_ScratchRegistersAreClobbered ==
    (last.op \in RawEntryPoints /\ last.returned) => last.lost = {} /\ last.wild = {}

====
